---------------------------- MODULE Spec2Model ----------------------------
(***************************************************************************)
(* A model of ps2hdd: the Device Session layer over the libps2hdd driver.  *)
(*                                                                         *)
(* Spec        the session life cycle (open, create, drop) run by several  *)
(*             threads over the process-wide IS_DEVICE_ACTIVE flag, the    *)
(*             driver's atad_device_path buffer and the host file system.  *)
(* SpecSeq     the same life cycle driven by one caller, one call after    *)
(*             the other, with the caller's last call recorded in hist.    *)
(* SpecMount   the PFS / HDLFS mount state machine of one open session.    *)
(*                                                                         *)
(* The driver (libps2hdd) is external: each primitive's result code is an  *)
(* input drawn from DriverCodes, and only the state this layer can observe *)
(* (device file open, which device roots were mounted) is kept.            *)
(***************************************************************************)
EXTENDS Integers, Sequences, FiniteSets, TLC

\* ------------------------------------------------------------------ bounds
NumThreads == 2
\* The most PS2HDD values one thread may own at once (the flag allows one).
MaxHeld == 2

\* ------------------------------------------------------- program constants
\* lib.rs:90   if length > 255
MaxPathLen == 255

Threads == 1..NumThreads

\* Result codes a driver primitive may return: negative, zero, positive.
DriverCodes == {-2, 0, 1}

\* ------------------------------------------------------------------- paths
\* The paths the callers pass.  Each is a byte string; all the bytes of a
\* path are the same nonzero byte, different for different paths, so that
\* stale bytes in the device-path buffer are visible.
\*   1  "hdd.img"-like: an existing regular file, 7 bytes
\*   2  an existing regular file whose path is exactly 255 bytes
\*   3  an existing regular file whose path is 256 bytes
\*   4  a path that does not exist, in a writable directory, 15 bytes
\*   5  an existing directory (File::create fails on it), 3 bytes
\*   6  an existing regular file whose name is not valid UTF-8, 9 bytes
Paths == 1..6

PathLen(p) ==
    CASE p = 1 -> 7
      [] p = 2 -> MaxPathLen
      [] p = 3 -> MaxPathLen + 1
      [] p = 4 -> 15
      [] p = 5 -> 3
      [] p = 6 -> 9

PathByte(p) == 64 + p

PathBytes(p) == [i \in 1..PathLen(p) |-> PathByte(p)]

\* Path::to_str is None for a path that is not valid UTF-8.
ToStrIsSome(p) == p # 6

\* Sizes: files on disk start with ImageSize bytes; create() asks for one of
\* CreateSizes.
ImageSize == 6
CreateSizes == {0, ImageSize}

\* The paths create() is called on: the path of an existing image, an
\* over-long path of an existing file, a new path, a directory.
CreatePaths == {1, 3, 4, 5}

InitKind(p) == CASE p = 4 -> "absent" [] p = 5 -> "dir" [] OTHER -> "file"

None == "None"

\* The partitions named in mount calls, and the two device roots.
PartNames == {"TESTPART", "__common"}
Roots == {"pfs0:", "hdl0:"}

VARIABLES
    IS_DEVICE_ACTIVE,   \* lib.rs:23  the process-wide singleton flag
    atad_device_path,   \* the driver's device-path buffer, 256 bytes
    dev_open,           \* driver: the device file is open (_init_apa .. atad_close)
    drv_mounted,        \* driver: device root -> partition mounted there or None
    fkind,              \* host file system: path -> "absent" | "file" | "dir"
    fsize,              \* host file system: path -> length of the file
    sessions,           \* thread -> the PS2HDD values it owns (a sequence)
    pc,                 \* thread -> where its current call stands
    call,               \* thread -> the call it is in: operation and path
    ret,                \* what the step just taken returned to its caller, if it returned
    drv_trace,          \* the driver primitives the step just taken invoked, in order
    hist,               \* SpecSeq, SpecMount: the caller's last call and what it followed
    parts,              \* driver: the APA partition table of hdd0:, in scan order
    pfs_dirs,           \* driver: directory of the file system at pfs0: -> its raw entries
    host_dirs,          \* host file system: the relative paths that are directories
    dir_handles,        \* driver: directory handles opened and not passed to iomanx_close
    listed              \* the Vec the list call just made returned

vars == <<IS_DEVICE_ACTIVE, atad_device_path, dev_open, drv_mounted, fkind,
          fsize, sessions, pc, call, ret, drv_trace, hist, parts, pfs_dirs,
          host_dirs, dir_handles, listed>>

\* The state of partition table, file system and handles.
io_vars == <<parts, pfs_dirs, host_dirs, dir_handles, listed>>

\* ---------------------------------------------------------------- helpers
\* CStr::from_ptr(buf): the bytes before the first NUL.
CStrLen(buf) ==
    IF \A i \in 0..MaxPathLen : buf[i] # 0
      THEN MaxPathLen + 1
      ELSE CHOOSE i \in 0..MaxPathLen :
             buf[i] = 0 /\ \A j \in 0..(i - 1) : buf[j] # 0

CStr(buf) == [i \in 1..CStrLen(buf) |-> buf[i - 1]]

\* A variant of WriteDevicePath for C37: the bytes of the path are stored
\* and no NUL after them.
WriteDevicePath_NoTerminator(buf, p) ==
    [i \in 0..MaxPathLen |->
        IF i < PathLen(p) THEN PathBytes(p)[i + 1] ELSE buf[i]]

\* lib.rs:98-107: every byte of the path is stored at its index, and a NUL
\* after the last one.  Bytes further on keep what they held.
WriteDevicePath(buf, p) ==
    [i \in 0..MaxPathLen |->
        IF i < PathLen(p) THEN PathBytes(p)[i + 1]
        ELSE IF i = PathLen(p) /\ PathLen(p) > 0 THEN 0
        ELSE buf[i]]

\* The value PS2HDD::open builds at lib.rs:177-181.
NewSession(p) == [path |-> p, pfs |-> None, hdlfs |-> None]

\* The PS2HDD values callers own: open has returned them and drop has not
\* been entered on them.
LiveSessions ==
    {s \in Threads \X (1..MaxHeld) : s[2] <= Len(sessions[s[1]])}

\* One driver primitive invocation and the code it returned.
DrvCall(prim, root, part, code) ==
    [prim |-> prim, root |-> root, part |-> part, code |-> code]

NoCall == [op |-> "none", path |-> 0]

\* No call returned in this step.
NoRet == [thread |-> 0, value |-> "none"]

\* The errors open returns after it has claimed the flag.
ClaimedFailures ==
    {"PathNotFound", "NotEncodable", "PathTooLong",
     "InitApaFailed", "InitPfsFailed"}

\* Thread t panics: the call never returns.
Panic(t) ==
    /\ pc' = [pc EXCEPT ![t] = "panicked"]
    /\ call' = call
    /\ ret' = NoRet

\* Call of thread t returns r.
Return(t, r) ==
    /\ pc' = [pc EXCEPT ![t] = "idle"]
    /\ call' = [call EXCEPT ![t] = NoCall]
    /\ ret' = [thread |-> t, value |-> r]

\* ------------------------------------------------------------ PS2HDD::open
\* A variant of WasActive for C1: a check that never sees the claim.
WasActive_Never == FALSE

\* A variant of WasActive for C34: a check that always sees a claim.
WasActive_Always == TRUE

\* lib.rs:62  IS_DEVICE_ACTIVE.swap(true, Relaxed): one atomic step that
\* stores true and yields the value found.
WasActive == IS_DEVICE_ACTIVE

\* A variant of SwapStore for C26: a load in place of the swap, which
\* leaves the flag as found.
SwapStore_Load == IS_DEVICE_ACTIVE

\* lib.rs:62  the value swap(true, Relaxed) stores.
SwapStore == TRUE

\* lib.rs:62-64: the swap and the early return.
OpenSwap(t, c) ==
    /\ IS_DEVICE_ACTIVE' = SwapStore
    /\ IF WasActive
         THEN Return(t, "AlreadyActive")
         ELSE /\ pc' = [pc EXCEPT ![t] = "open_is_file"]
              /\ call' = [call EXCEPT ![t] = c]
              /\ ret' = NoRet
    /\ drv_trace' = <<>>
    /\ UNCHANGED <<atad_device_path, dev_open, drv_mounted, fkind, fsize,
                   sessions>>

Open(t, p) ==
    /\ pc[t] = "idle"
    /\ OpenSwap(t, [op |-> "open", path |-> p])

\* A variant of ReleaseClaim for C4: the error branches leave the flag set.
ReleaseClaim_Kept == TRUE

\* lib.rs:70, 77, 91, 144, 171: IS_DEVICE_ACTIVE.swap(false, Relaxed) on an
\* error branch: the value stored.
ReleaseClaim == FALSE

\* A variant of IsFile for C5: path.exists() in place of path.is_file().
IsFile_Exists(p) == fkind[p] # "absent"

\* lib.rs:69  path.is_file()
IsFile(p) == fkind[p] = "file"

\* lib.rs:69-72
OpenIsFile(t) ==
    /\ pc[t] = "open_is_file"
    /\ IF ~IsFile(call[t].path)
         THEN /\ IS_DEVICE_ACTIVE' = ReleaseClaim
              /\ Return(t, "PathNotFound")
         ELSE /\ pc' = [pc EXCEPT ![t] = "open_path"]
              /\ ret' = NoRet
              /\ UNCHANGED <<IS_DEVICE_ACTIVE, call>>
    /\ drv_trace' = <<>>
    /\ UNCHANGED <<atad_device_path, dev_open, drv_mounted, fkind, fsize,
                   sessions>>

\* A variant of PathTooLong for C6: the limit one byte lower.
PathTooLong_OffByOne(p) == PathLen(p) >= MaxPathLen

\* lib.rs:90  the length test on the encoded path.
PathTooLong(p) == PathLen(p) > MaxPathLen

\* lib.rs:74-117: to_str, the length test, the copy into atad_device_path and
\* the assertion that the buffer reads back as the path.
OpenPath(t) ==
    /\ pc[t] = "open_path"
    /\ LET p == call[t].path IN
       IF ~ToStrIsSome(p)
         THEN /\ IS_DEVICE_ACTIVE' = ReleaseClaim
              /\ Return(t, "NotEncodable")
              /\ UNCHANGED atad_device_path
       ELSE IF PathTooLong(p)
         THEN /\ IS_DEVICE_ACTIVE' = ReleaseClaim
              /\ Return(t, "PathTooLong")
              /\ UNCHANGED atad_device_path
       ELSE /\ atad_device_path' = WriteDevicePath(atad_device_path, p)
            /\ IF CStr(atad_device_path') = PathBytes(p)
                 THEN pc' = [pc EXCEPT ![t] = "open_init_apa"]
                 ELSE pc' = [pc EXCEPT ![t] = "panicked"]
            /\ ret' = NoRet
            /\ UNCHANGED <<IS_DEVICE_ACTIVE, call>>
    /\ drv_trace' = <<>>
    /\ UNCHANGED <<dev_open, drv_mounted, fkind, fsize, sessions>>

\* A variant of InitRefused for C25: the result read as
\* nonnegative-means-success.
InitRefused_Negative(r) == r < 0

\* lib.rs:138-141, 165-168  ok_on_zero_or_strerror on the result of
\* _init_apa and _init_pfs.
InitRefused(r) == r # 0

\* lib.rs:144, 171  the store that releases the claim, in the order of the
\* calls around it.
FlagStore == DrvCall("IS_DEVICE_ACTIVE.swap", None, None, 0)

\* A variant of FailedInitSteps for C29: the error branch without
\* atad_close.
FailedInitSteps_NoClose(prim, r) ==
    <<DrvCall(prim, None, None, r), FlagStore>>

\* lib.rs:138-146, 165-173: what open does when prim returned r and the
\* result was refused: atad_close, then the release of the claim.
FailedInitSteps(prim, r) ==
    <<DrvCall(prim, None, None, r), DrvCall("atad_close", None, None, 0),
      FlagStore>>

\* The device file is closed by the steps taken.
Closes(steps) == \E i \in 1..Len(steps) : steps[i].prim = "atad_close"

\* lib.rs:138-146: _init_apa opens the file named by atad_device_path; on a
\* nonzero result atad_close, then the claim is released.
OpenInitApa(t) ==
    /\ pc[t] = "open_init_apa"
    /\ \E r \in DriverCodes :
         IF InitRefused(r)
           THEN /\ drv_trace' = FailedInitSteps("_init_apa", r)
                /\ dev_open' = ~Closes(drv_trace')
                /\ IS_DEVICE_ACTIVE' = ReleaseClaim
                /\ Return(t, "InitApaFailed")
           ELSE /\ drv_trace' = <<DrvCall("_init_apa", None, None, r)>>
                /\ dev_open' = TRUE
                /\ pc' = [pc EXCEPT ![t] = "open_init_pfs"]
                /\ ret' = NoRet
                /\ UNCHANGED <<IS_DEVICE_ACTIVE, call>>
    /\ UNCHANGED <<atad_device_path, drv_mounted, fkind, fsize, sessions>>

\* lib.rs:165-181: _init_pfs, then the session value is built.
OpenInitPfs(t) ==
    /\ pc[t] = "open_init_pfs"
    /\ Len(sessions[t]) < MaxHeld
    /\ \E r \in DriverCodes :
         IF InitRefused(r)
           THEN /\ drv_trace' = FailedInitSteps("_init_pfs", r)
                /\ dev_open' = ~Closes(drv_trace')
                /\ IS_DEVICE_ACTIVE' = ReleaseClaim
                /\ Return(t, "InitPfsFailed")
                /\ UNCHANGED sessions
           ELSE /\ drv_trace' = <<DrvCall("_init_pfs", None, None, r)>>
                /\ sessions' = [sessions EXCEPT
                                  ![t] = Append(@, NewSession(call[t].path))]
                /\ Return(t, "Ok")
                /\ UNCHANGED <<IS_DEVICE_ACTIVE, dev_open>>
    /\ UNCHANGED <<atad_device_path, drv_mounted, fkind, fsize>>

\* ---------------------------------------------------------- PS2HDD::create
\* lib.rs:194  File::create succeeds on a path that is absent or a regular
\* file (which it truncates) and fails on a directory.
CanCreate(p) == fkind[p] # "dir"

\* lib.rs:194-202: File::create, then set_len(size), whose outcome the host
\* decides.
Create(t, p, size) ==
    /\ pc[t] = "idle"
    /\ LET c == [op |-> "create", path |-> p] IN
       IF ~CanCreate(p)
         THEN /\ Return(t, "IoError")
              /\ UNCHANGED <<fkind, fsize>>
         ELSE /\ fkind' = [fkind EXCEPT ![p] = "file"]
              /\ \E extended \in BOOLEAN :
                   IF extended
                     THEN /\ fsize' = [fsize EXCEPT ![p] = size]
                          /\ pc' = [pc EXCEPT ![t] = "create_open"]
                          /\ call' = [call EXCEPT ![t] = c]
                          /\ ret' = NoRet
                     ELSE /\ fsize' = [fsize EXCEPT ![p] = 0]
                          /\ Return(t, "IoError")
    /\ drv_trace' = <<>>
    /\ UNCHANGED <<IS_DEVICE_ACTIVE, atad_device_path, dev_open, drv_mounted,
                   sessions>>

\* lib.rs:204  Self::open(path)
CreateOpen(t) ==
    /\ pc[t] = "create_open"
    /\ OpenSwap(t, call[t])

\* ------------------------------------------------------ impl Drop for PS2HDD
RemoveAt(s, i) == [j \in 1..(Len(s) - 1) |-> IF j < i THEN s[j] ELSE s[j + 1]]

\* A variant of DropStore for C3: drop leaves the flag set.
DropStore_Set == TRUE

\* lib.rs:487  the value drop stores into the flag.
DropStore == FALSE

\* lib.rs:487-488: swap(false), then the assertion on the value found.
DropSwap(t, i) ==
    /\ pc[t] = "idle"
    /\ i \in 1..Len(sessions[t])
    /\ sessions' = [sessions EXCEPT ![t] = RemoveAt(@, i)]
    /\ IS_DEVICE_ACTIVE' = DropStore
    /\ IF IS_DEVICE_ACTIVE
         THEN pc' = [pc EXCEPT ![t] = "drop_close"]
         ELSE pc' = [pc EXCEPT ![t] = "panicked"]
    /\ call' = [call EXCEPT ![t] = [op |-> "drop",
                                    path |-> sessions[t][i].path]]
    /\ ret' = NoRet
    /\ drv_trace' = <<>>
    /\ UNCHANGED <<atad_device_path, dev_open, drv_mounted, fkind, fsize>>

\* lib.rs:489  atad_close()
DropClose(t) ==
    /\ pc[t] = "drop_close"
    /\ dev_open' = FALSE
    /\ drv_trace' = <<DrvCall("atad_close", None, None, 0)>>
    /\ Return(t, "dropped")
    /\ UNCHANGED <<IS_DEVICE_ACTIVE, atad_device_path, drv_mounted, fkind,
                   fsize, sessions>>

\* ------------------------------------------------- mount_pfs / mount_hdlfs
\* A variant of PfsOccupied for C8: mount_pfs without the slot test.
PfsOccupied_Never(s) == FALSE

\* lib.rs:395  self.pfs.is_some()
PfsOccupied(s) == s.pfs # None

\* lib.rs:426  self.hdlfs.is_some()
HdlfsOccupied(s) == s.hdlfs # None

\* lib.rs:455-482  PS2HDD::mount: one iomanx_mount(root, "hdd0:" + name)
\* call, read by ok_on_zero_or_strerror.  The driver records the mount it
\* accepted.
DriverMount(root, name, r) ==
    /\ drv_trace' = <<DrvCall("iomanx_mount", root, name, r)>>
    /\ drv_mounted' = IF r = 0 THEN [drv_mounted EXCEPT ![root] = name]
                      ELSE drv_mounted

\* A variant of MountRefused for C39: the result of iomanx_mount read as
\* nonnegative-means-success.
MountRefused_Negative(r) == r < 0

\* lib.rs:470-481  ok_on_zero_or_strerror on the result of iomanx_mount,
\* passed on by the ? of lib.rs:399 and lib.rs:430.
MountRefused(r) == r # 0

\* lib.rs:401-403  self.pfs = Some(PFS { partition_name })
WithPfs(s, name) == [s EXCEPT !.pfs = name]

\* lib.rs:432-434  self.hdlfs = Some(HDLFS { partition_name })
WithHdlfs(s, name) == [s EXCEPT !.hdlfs = name]

\* lib.rs:394-408
MountPfs(t, name) ==
    /\ pc[t] = "idle"
    /\ Len(sessions[t]) >= 1
    /\ IF PfsOccupied(sessions[t][1])
         THEN /\ Return(t, "AlreadyMounted")
              /\ drv_trace' = <<>>
              /\ UNCHANGED <<sessions, drv_mounted>>
         ELSE \E r \in DriverCodes :
                /\ DriverMount("pfs0:", name, r)
                /\ IF MountRefused(r)
                     THEN /\ Return(t, "MountFailed")
                          /\ UNCHANGED sessions
                     ELSE /\ sessions' = [sessions EXCEPT
                                            ![t][1] = WithPfs(@, name)]
                          /\ Return(t, "Ok")
    /\ UNCHANGED <<IS_DEVICE_ACTIVE, atad_device_path, dev_open, fkind, fsize>>

\* lib.rs:425-439
MountHdlfs(t, name) ==
    /\ pc[t] = "idle"
    /\ Len(sessions[t]) >= 1
    /\ IF HdlfsOccupied(sessions[t][1])
         THEN /\ Return(t, "AlreadyMounted")
              /\ drv_trace' = <<>>
              /\ UNCHANGED <<sessions, drv_mounted>>
         ELSE \E r \in DriverCodes :
                /\ DriverMount("hdl0:", name, r)
                /\ IF MountRefused(r)
                     THEN /\ Return(t, "MountFailed")
                          /\ UNCHANGED sessions
                     ELSE /\ sessions' = [sessions EXCEPT
                                            ![t][1] = WithHdlfs(@, name)]
                          /\ Return(t, "Ok")
    /\ UNCHANGED <<IS_DEVICE_ACTIVE, atad_device_path, dev_open, fkind, fsize>>

\* ----------------------------------------------- umount_pfs / umount_hdlfs
\* A variant of PfsEmpty for C10: umount_pfs without the slot test.
PfsEmpty_Never(s) == FALSE

\* lib.rs:415  self.pfs.is_none()
PfsEmpty(s) == s.pfs = None

\* lib.rs:446  self.hdlfs.is_none()
HdlfsEmpty(s) == s.hdlfs = None

\* A variant of WithoutPfs for C9: umount_pfs that keeps the slot.
WithoutPfs_Kept(s) == s

\* lib.rs:419  self.pfs = None
WithoutPfs(s) == [s EXCEPT !.pfs = None]

\* lib.rs:450  self.hdlfs = None
WithoutHdlfs(s) == [s EXCEPT !.hdlfs = None]

\* A variant of UmountDriver for C11: umount that calls the driver's unmount.
UmountDriver_Calls(root) ==
    /\ drv_trace' = <<DrvCall("iomanx_umount", root, None, 0)>>
    /\ drv_mounted' = [drv_mounted EXCEPT ![root] = None]

\* lib.rs:414-422, 445-453: what umount_pfs / umount_hdlfs do to the driver:
\* no primitive is invoked, the driver keeps the mount it has.
UmountDriver(root) ==
    /\ drv_trace' = <<>>
    /\ drv_mounted' = drv_mounted

\* lib.rs:414-422
UmountPfs(t) ==
    /\ pc[t] = "idle"
    /\ Len(sessions[t]) >= 1
    /\ IF PfsEmpty(sessions[t][1])
         THEN /\ Return(t, "NotMounted")
              /\ UNCHANGED sessions
         ELSE /\ sessions' = [sessions EXCEPT ![t][1] = WithoutPfs(@)]
              /\ Return(t, "Ok")
    /\ UmountDriver("pfs0:")
    /\ UNCHANGED <<IS_DEVICE_ACTIVE, atad_device_path, dev_open, fkind, fsize>>

\* lib.rs:445-453
UmountHdlfs(t) ==
    /\ pc[t] = "idle"
    /\ Len(sessions[t]) >= 1
    /\ IF HdlfsEmpty(sessions[t][1])
         THEN /\ Return(t, "NotMounted")
              /\ UNCHANGED sessions
         ELSE /\ sessions' = [sessions EXCEPT ![t][1] = WithoutHdlfs(@)]
              /\ Return(t, "Ok")
    /\ UmountDriver("hdl0:")
    /\ UNCHANGED <<IS_DEVICE_ACTIVE, atad_device_path, dev_open, fkind, fsize>>

\* ------------------------------------------------------- partition kinds
PartitionKinds == {"MBR", "EXT2Swap", "EXT2", "PFS", "CFS", "HDL"}

FormattableKinds == {"MBR", "PFS", "HDL"}

\* partition_kind.rs:39-51  the discriminants 0x0001, 0x0082, 0x0083,
\* 0x0100, 0x0101, 0x1337.
KindCode(k) ==
    CASE k = "MBR" -> 1
      [] k = "EXT2Swap" -> 130
      [] k = "EXT2" -> 131
      [] k = "PFS" -> 256
      [] k = "CFS" -> 257
      [] k = "HDL" -> 4919

\* partition_kind.rs:98-112  TryFrom<u32> for PartitionKind
KindTryFrom(n) ==
    IF \E k \in PartitionKinds : KindCode(k) = n
      THEN [ok |-> TRUE, kind |-> CHOOSE k \in PartitionKinds : KindCode(k) = n]
      ELSE [ok |-> FALSE, kind |-> None]

\* A variant of ApaFsType for C15: the PFS and CFS tags exchanged.
ApaFsType_Swapped(k) ==
    CASE k = "MBR" -> "MBR"
      [] k = "EXT2Swap" -> "EXT2SWAP"
      [] k = "EXT2" -> "EXT2"
      [] k = "PFS" -> "CFS"
      [] k = "CFS" -> "PFS"
      [] k = "HDL" -> "HDL"

\* partition_kind.rs:86-95  as_apa_fs_type
ApaFsType(k) ==
    CASE k = "MBR" -> "MBR"
      [] k = "EXT2Swap" -> "EXT2SWAP"
      [] k = "EXT2" -> "EXT2"
      [] k = "PFS" -> "PFS"
      [] k = "CFS" -> "CFS"
      [] k = "HDL" -> "HDL"

\* str::to_lowercase on a tag.
LowerTag(tag) ==
    CASE tag = "MBR" -> "mbr"
      [] tag = "EXT2SWAP" -> "ext2swap"
      [] tag = "EXT2" -> "ext2"
      [] tag = "PFS" -> "pfs"
      [] tag = "CFS" -> "cfs"
      [] tag = "HDL" -> "hdl"

\* ------------------------------------------------------ directory entries
\* A name the driver yields that is not valid UTF-8.
BadName == "\\xFF"

\* CStr::to_str on the name of an entry.
NameIsUtf8(n) == n # BadName

\* iox_dirent_t: the name, stat.mode and stat.size of an entry.
Dirent(name, mode, size) == [name |-> name, mode |-> mode, size |-> size]

\* fs.rs:91  bytes in a sector.
SectorBytes == 512

SectorsPerMiB == (1024 * 1024) \div SectorBytes

\* A variant of BytesOf for C14: stat.size taken as bytes.
BytesOf_Unscaled(sectors) ==
    [mib |-> sectors \div (1024 * 1024), rem |-> sectors % (1024 * 1024)]

\* fs.rs:91  (dirent.stat.size as u64) * 512.  The product is a u64; it is
\* kept as whole mebibytes and the bytes beyond them.
BytesOf(sectors) ==
    [mib |-> sectors \div SectorsPerMiB,
     rem |-> (sectors % SectorsPerMiB) * SectorBytes]

\* A variant of PartEntryTryFrom for C31: without the arm for mode 0, every
\* mode is handed to PartitionKind::try_from.
PartEntryTryFrom_NoAbsent(d) ==
    IF ~NameIsUtf8(d.name)
      THEN [ok |-> FALSE, err |-> "DecodeFailed", entry |-> None]
    ELSE IF ~KindTryFrom(d.mode).ok
      THEN [ok |-> FALSE, err |-> "InvalidKind", entry |-> None]
    ELSE [ok |-> TRUE, err |-> "none",
          entry |-> [name |-> d.name, kind |-> KindTryFrom(d.mode).kind,
                     size |-> BytesOf(d.size)]]

\* fs.rs:71-94  TryFrom<iox_dirent_t> for PartEntry
PartEntryTryFrom(d) ==
    IF ~NameIsUtf8(d.name)
      THEN [ok |-> FALSE, err |-> "DecodeFailed", entry |-> None]
    ELSE IF d.mode # 0 /\ ~KindTryFrom(d.mode).ok
      THEN [ok |-> FALSE, err |-> "InvalidKind", entry |-> None]
    ELSE [ok |-> TRUE, err |-> "none",
          entry |-> [name |-> d.name,
                     kind |-> IF d.mode = 0 THEN None
                              ELSE KindTryFrom(d.mode).kind,
                     size |-> BytesOf(d.size)]]

\* fs.rs:15  ps2hdd_sys::FIO_S_IFDIR, the mode of a directory.
FIO_S_IFDIR == 4096

\* What the driver yields for a directory without children.
DotEntries == <<Dirent(".", FIO_S_IFDIR, 0), Dirent("..", FIO_S_IFDIR, 0)>>

\* The file system a format leaves: the root, holding "." and "..".
\* Directories are the paths from the root, as component sequences.
EmptyFs == [d \in {<<>>} |-> DotEntries]

\* ------------------------------------------------- driver: partition table
\* The most entries the partition table holds.
MaxParts == 6

\* The most directory handles that are open at once.
MaxHandles == 1

\* What iomanx_format("hdd0:") writes: the five default partitions of
\* 128 MiB.
DefaultParts ==
    <<Dirent("__mbr", 1, 128 * SectorsPerMiB),
      Dirent("__net", 256, 128 * SectorsPerMiB),
      Dirent("__system", 256, 128 * SectorsPerMiB),
      Dirent("__sysconf", 256, 128 * SectorsPerMiB),
      Dirent("__common", 256, 128 * SectorsPerMiB)>>

\* The size field of a creation path: the number and the unit.
SizeField(n, unit) == [n |-> n, unit |-> unit]

\* The size fields the driver accepts (lib.rs:282-283).
DriverSizes ==
    {SizeField(128, "M"), SizeField(256, "M"), SizeField(512, "M"),
     SizeField(1, "G"), SizeField(2, "G"), SizeField(4, "G"),
     SizeField(8, "G"), SizeField(16, "G"), SizeField(32, "G")}

\* The sectors of a partition created with size field f.
FieldSectors(f) ==
    IF f.unit = "G" THEN f.n * 1024 * SectorsPerMiB ELSE f.n * SectorsPerMiB

\* The mode the driver stores for a file system tag.
TagMode(tag) ==
    CASE tag = "MBR" -> 1
      [] tag = "EXT2SWAP" -> 130
      [] tag = "EXT2" -> 131
      [] tag = "PFS" -> 256
      [] tag = "CFS" -> 257
      [] tag = "HDL" -> 4919

\* The results iomanx_open may give for a creation path: -22 for a size
\* field the driver does not know, -17 for a name in use, -28 for a full
\* table; otherwise a file handle, or -5 for a failed write.
DriverOpenCodes(tbl, name, f) ==
    IF f \notin DriverSizes THEN {-22}
    ELSE IF \E i \in 1..Len(tbl) : tbl[i].name = name THEN {-17}
    ELSE IF Len(tbl) >= MaxParts THEN {-28}
    ELSE {0, 3, -5}

\* The handle numbers the driver hands out, and the one it hands out next.
HandleNumbers == 1..(MaxHandles + 1)

NextHandle == CHOOSE h \in HandleNumbers :
                 h \notin dir_handles /\ \A g \in HandleNumbers :
                                           g \notin dir_handles => h <= g

\* What the driver does during a list call: the primitive that reports a
\* fault, for iomanx_dread the read it happens at, the code, the text the
\* failed read leaves in the name field, and the positive number a read
\* that yields an entry returns.
Fault(stage, at, code) ==
    [stage |-> stage, at |-> at, code |-> code, name |-> "", pos |-> 1]

NoFault == Fault("none", 0, 0)

\* The positive results of iomanx_dread: handle numbers, not counts.
PositiveReads == {1, 3}

ListFaults(n) ==
    {NoFault, Fault("dopen", 0, -2), Fault("close", 0, -5), Fault("close", 0, 1)}
      \cup {[NoFault EXCEPT !.pos = q] : q \in PositiveReads}
      \cup {[Fault("dread", k, -5) EXCEPT !.name = m] :
               k \in 1..(n + 1), m \in {"", BadName}}

\* A variant of ListCloseRefused for C28: the result of iomanx_close read as
\* nonnegative-means-success.
ListCloseRefused_Negative(c) == c < 0

\* lib.rs:267-270, driver.rs:119-122  ok_on_zero_or_strerror on the result
\* of iomanx_close.
ListCloseRefused(c) == c # 0

\* ---------------------------------------------------- PS2HDD::initialize
\* lib.rs:216-235: one iomanx_format("hdd0:") call read by
\* ok_on_zero_or_strerror.
Initialize(t) ==
    /\ pc[t] = "idle"
    /\ Len(sessions[t]) >= 1
    /\ \E r \in DriverCodes :
         /\ drv_trace' = <<DrvCall("iomanx_format", "hdd0:", None, r)>>
         /\ IF r # 0
              THEN /\ Return(t, "FormatFailed")
                   /\ UNCHANGED parts
              ELSE /\ parts' = DefaultParts
                   /\ Return(t, "Ok")
    /\ listed' = <<>>
    /\ UNCHANGED <<IS_DEVICE_ACTIVE, atad_device_path, dev_open, drv_mounted,
                   fkind, fsize, sessions, pfs_dirs, host_dirs, dir_handles>>

\* ------------------------------------------------ PS2HDD::list_partitions
\* lib.rs:252-265: the reads of the open handle.  Read i fails, or yields
\* entry i, which is projected and pushed, or finds the table drained.  On a
\* failed read the name field is unwrapped with expect (lib.rs:256-258): a
\* name that is not UTF-8 panics.
RECURSIVE DrainPartitions(_, _, _, _, _)
DrainPartitions(tbl, i, acc, tr, fault) ==
    IF fault.stage = "dread" /\ fault.at = i
      THEN [value |-> IF NameIsUtf8(fault.name) THEN "DreadFailed"
                      ELSE "Panicked",
            list |-> <<>>,
            trace |-> Append(tr, DrvCall("iomanx_dread", "hdd0:", None,
                                         fault.code))]
    ELSE IF i > Len(tbl)
      THEN [value |-> "drained", list |-> acc,
            trace |-> Append(tr, DrvCall("iomanx_dread", "hdd0:", None, 0))]
    ELSE LET e == PartEntryTryFrom(tbl[i])
             tr1 == Append(tr, DrvCall("iomanx_dread", "hdd0:", None,
                                       fault.pos))
         IN  IF ~e.ok
               THEN [value |-> e.err, list |-> <<>>, trace |-> tr1]
               ELSE DrainPartitions(tbl, i + 1, Append(acc, e.entry), tr1,
                                    fault)

\* lib.rs:242-273: iomanx_dopen, the drain, iomanx_close.
ListPartitionsImpl(tbl, fault) ==
    LET dopen == DrvCall("iomanx_dopen", "hdd0:", None,
                         IF fault.stage = "dopen" THEN fault.code
                         ELSE NextHandle)
        d == DrainPartitions(tbl, 1, <<>>, <<dopen>>, fault)
        close == DrvCall("iomanx_close", "hdd0:", None,
                         IF fault.stage = "close" THEN fault.code ELSE 0)
    IN  IF dopen.code < 0
          THEN [value |-> "DopenFailed", list |-> <<>>, trace |-> <<dopen>>,
                opened |-> FALSE, closed |-> FALSE]
        ELSE IF d.value # "drained"
          THEN [value |-> d.value, list |-> <<>>, trace |-> d.trace,
                opened |-> TRUE, closed |-> FALSE]
        ELSE IF ListCloseRefused(close.code)
          THEN [value |-> "CloseFailed", list |-> <<>>,
                trace |-> Append(d.trace, close),
                opened |-> TRUE, closed |-> TRUE]
        ELSE [value |-> "Ok", list |-> d.list,
              trace |-> Append(d.trace, close),
              opened |-> TRUE, closed |-> TRUE]

\* The handles open after a list call with outcome r.
HandlesAfter(r) ==
    IF r.opened /\ ~r.closed THEN dir_handles \cup {NextHandle}
    ELSE dir_handles

ListPartitions(t) ==
    /\ pc[t] = "idle"
    /\ Len(sessions[t]) >= 1
    /\ Cardinality(dir_handles) < MaxHandles
    /\ \E fault \in ListFaults(Len(parts)) :
         LET r == ListPartitionsImpl(parts, fault) IN
           /\ IF r.value = "Panicked" THEN Panic(t) ELSE Return(t, r.value)
           /\ listed' = r.list
           /\ drv_trace' = r.trace
           /\ dir_handles' = HandlesAfter(r)
    /\ UNCHANGED <<IS_DEVICE_ACTIVE, atad_device_path, dev_open, drv_mounted,
                   fkind, fsize, sessions, parts, pfs_dirs, host_dirs>>

\* ----------------------------------------------- PS2HDD::create_partition
\* u64::count_ones
RECURSIVE CountOnes(_)
CountOnes(n) == IF n = 0 THEN 0 ELSE (n % 2) + CountOnes(n \div 2)

\* A variant of IsPowerOfTwo for C12: a test for even sizes.
IsPowerOfTwo_Even(n) == n % 2 = 0

\* lib.rs:305  size.is_power_of_two(): exactly one bit set.
IsPowerOfTwo(n) == CountOnes(n) = 1

\* A variant of SizeStr for C13: every size written in mebibytes.
SizeStr_Mebibytes(size) == SizeField(size, "M")

\* lib.rs:315-318  "{n / 1024}G" from 1024 on, "{n}M" below.
SizeStr(size) ==
    IF size >= 1024 THEN SizeField(size \div 1024, "G")
    ELSE SizeField(size, "M")

\* A variant of FormatKind for C23: MBR kept as it is.
FormatKind_Kept(kind) == kind

\* lib.rs:309-313, 354-358: MBR is formatted as PFS; then
\* From<FormattablePartitionKind> (partition_kind.rs:127-134).
FormatKind(kind) == IF kind = "MBR" THEN "PFS" ELSE kind

\* lib.rs:364  the device of format_partition: the lowercase tag and "0:".
KindRoot(k) == LowerTag(ApaFsType(k)) \o "0:"

\* lib.rs:349-391  format_partition: one iomanx_format call on the device
\* of the kind, read by ok_on_zero_or_strerror.
FormatCall(name, kind, f) ==
    DrvCall("iomanx_format", KindRoot(FormatKind(kind)), name, f)

\* A variant of FormatRefused for C36: the result of iomanx_format read as
\* nonnegative-means-success.
FormatRefused_Negative(f) == f < 0

\* lib.rs:383-388  ok_on_zero_or_strerror on the result of iomanx_format.
FormatRefused(f) == f # 0

FormatPartition(t, name, kind) ==
    /\ pc[t] = "idle"
    /\ Len(sessions[t]) >= 1
    /\ \E f \in DriverCodes :
         /\ drv_trace' = <<FormatCall(name, kind, f)>>
         /\ Return(t, IF FormatRefused(f) THEN "FormatFailed" ELSE "Ok")
    /\ listed' = <<>>
    /\ UNCHANGED <<IS_DEVICE_ACTIVE, atad_device_path, dev_open, drv_mounted,
                   fkind, fsize, sessions, parts, pfs_dirs, host_dirs,
                   dir_handles>>

\* lib.rs:320-333  iomanx_open("hdd0:{name},,,{size},{tag}",
\* O_RDWR | O_CREAT) and the code it returned.
CreateCall(name, field, tag, code) ==
    [prim |-> "iomanx_open", root |-> "hdd0:", part |-> name, code |-> code,
     size |-> field, tag |-> tag]

\* lib.rs:335-338  iomanx_close(handle) and the code it returned.
CloseCall(name, handle, code) ==
    [prim |-> "iomanx_close", root |-> "hdd0:", part |-> name, code |-> code,
     handle |-> handle]

\* A variant of OpenRefused for C30: the result read as zero-means-success.
OpenRefused_Nonzero(o) == o # 0

\* lib.rs:330-333  ok_on_nonnegative_or_strerror on the result of
\* iomanx_open.
OpenRefused(o) == o < 0

\* lib.rs:299-341: the size test, iomanx_open of
\* "hdd0:{name},,,{size},{tag}" with O_RDWR | O_CREAT, iomanx_close,
\* format_partition.
CreatePartition(t, name, kind, size) ==
    /\ pc[t] = "idle"
    /\ Len(sessions[t]) >= 1
    /\ IF ~IsPowerOfTwo(size)
         THEN /\ Return(t, "InvalidSize")
              /\ drv_trace' = <<>>
              /\ UNCHANGED parts
         ELSE \E o \in DriverOpenCodes(parts, name, SizeStr(size)) :
                LET field == SizeStr(size)
                    tag == ApaFsType(FormatKind(kind))
                    open == CreateCall(name, field, tag, o)
                IN  /\ parts' = IF o >= 0
                                  THEN Append(parts,
                                              Dirent(name, TagMode(tag),
                                                     FieldSectors(field)))
                                  ELSE parts
                    /\ IF OpenRefused(o)
                         THEN /\ Return(t, "CreateFailed")
                              /\ drv_trace' = <<open>>
                         ELSE /\ \E c \in DriverCodes :
                                   LET close == CloseCall(name, o, c)
                                   IN  IF c # 0
                                         THEN /\ Return(t, "CloseFailed")
                                              /\ drv_trace' = <<open, close>>
                                         ELSE \E f \in DriverCodes :
                                                /\ drv_trace' =
                                                     <<open, close,
                                                       FormatCall(name, kind, f)>>
                                                /\ Return(t,
                                                     IF FormatRefused(f)
                                                       THEN "FormatFailed"
                                                       ELSE "Ok")
    /\ listed' = <<>>
    /\ UNCHANGED <<IS_DEVICE_ACTIVE, atad_device_path, dev_open, drv_mounted,
                   fkind, fsize, sessions, pfs_dirs, host_dirs, dir_handles>>

\* --------------------------------------------------------- specification
\* hist: the operation, path and partition of the caller's last call, its
\* value ("pending" until it returns), what it directly followed and whether
\* a session was open when it started.
NoHist == [op |-> "none", path |-> 0, part |-> None, value |-> "none",
           after |-> "none", live |-> FALSE]

\* open, create, drop, mount and umount leave partition table, file system
\* and handles alone.
IoKept == UNCHANGED io_vars

\* Before any partition or directory call: an unformatted image, an empty
\* file system, no handle open.
InitIo ==
    /\ parts = <<>>
    /\ pfs_dirs = EmptyFs
    /\ host_dirs = {}
    /\ dir_handles = {}
    /\ listed = <<>>

\* atad_device_path starts as the driver's default, "hdd.img": the bytes of
\* path 1 (ps2hdd-sys lib.rs:132).
InitProcess ==
    /\ IS_DEVICE_ACTIVE = FALSE
    /\ atad_device_path = WriteDevicePath([i \in 0..MaxPathLen |-> 0], 1)
    /\ dev_open = FALSE
    /\ drv_mounted = [d \in Roots |-> None]
    /\ fkind = [p \in Paths |-> InitKind(p)]
    /\ fsize = [p \in Paths |-> IF InitKind(p) = "file" THEN ImageSize ELSE 0]
    /\ sessions = [t \in Threads |-> <<>>]
    /\ pc = [t \in Threads |-> "idle"]
    /\ call = [t \in Threads |-> NoCall]
    /\ ret = NoRet
    /\ drv_trace = <<>>
    /\ InitIo

Init == InitProcess /\ hist = NoHist

\* Any thread takes the next step of its call, or starts one.
Next ==
    /\ UNCHANGED hist
    /\ UNCHANGED io_vars
    /\ \E t \in Threads :
        \/ \E p \in Paths : Open(t, p)
        \/ OpenIsFile(t)
        \/ OpenPath(t)
        \/ OpenInitApa(t)
        \/ OpenInitPfs(t)
        \/ \E p \in CreatePaths, size \in CreateSizes : Create(t, p, size)
        \/ CreateOpen(t)
        \/ \E i \in 1..MaxHeld : DropSwap(t, i)
        \/ DropClose(t)

Spec == Init /\ [][Next]_vars

\* ------------------------------------------------------------- one caller
\* The thread that makes the calls of SpecSeq and SpecMount.
Caller == CHOOSE t \in Threads : \A u \in Threads : t <= u

MountOps == {"mount_pfs", "umount_pfs", "mount_hdlfs", "umount_hdlfs"}

\* What the call now starting directly follows: "drop" when the caller's
\* last call dropped a session on the same path (lib.rs:530-532), the error
\* when it was an open that failed after claiming the flag (lib.rs:695-712),
\* the operation when it was a mount or umount that succeeded.
After(p) ==
    IF hist.op = "drop" /\ hist.path = p /\ p # 0 THEN "drop"
    ELSE IF hist.op = "open" /\ hist.value \in ClaimedFailures THEN hist.value
    ELSE IF hist.op \in MountOps /\ hist.value = "Ok" THEN hist.op
    ELSE "none"

\* The step starts a call of the caller.
Started(op, p, part) ==
    hist' = [op |-> op, path |-> p, part |-> part,
             value |-> IF ret'.thread = Caller THEN ret'.value ELSE "pending",
             after |-> After(p),
             live |-> LiveSessions # {}]

\* The step continues the caller's call.
Continued ==
    hist' = IF ret'.thread = Caller THEN [hist EXCEPT !.value = ret'.value]
            ELSE hist

NextSeq ==
    \/ \E p \in Paths : Open(Caller, p) /\ Started("open", p, None) /\ IoKept
    \/ OpenIsFile(Caller) /\ Continued /\ IoKept
    \/ OpenPath(Caller) /\ Continued /\ IoKept
    \/ OpenInitApa(Caller) /\ Continued /\ IoKept
    \/ OpenInitPfs(Caller) /\ Continued /\ IoKept
    \/ \E p \in CreatePaths, size \in CreateSizes :
          Create(Caller, p, size) /\ Started("create", p, None) /\ IoKept
    \/ CreateOpen(Caller) /\ Continued /\ IoKept
    \/ \E i \in 1..MaxHeld :
          /\ DropSwap(Caller, i)
          /\ Started("drop", sessions[Caller][i].path, None)
          /\ IoKept
    \/ DropClose(Caller) /\ Continued /\ IoKept

SpecSeq == Init /\ [][NextSeq]_vars

\* ------------------------------------------------- the bring-up counters
\* The most invocations of a primitive that are told apart.
MaxCounted == 2

\* The invocations of prim in the step.
CountOf(prim) ==
    Cardinality({i \in 1..Len(drv_trace') : drv_trace'[i].prim = prim})

UpTo(n) == IF n > MaxCounted THEN MaxCounted ELSE n

\* hist counts the _init_apa and _init_pfs invocations (lib.rs:139, 166) of
\* the process so far and of the caller's call in progress, and keeps the
\* last result of _init_apa in that call.
NoCounts == [op |-> "none", apa |-> 0, pfs |-> 0, callApa |-> 0,
             callPfs |-> 0, apaCode |-> 0]

Counted(op, fresh) ==
    LET base == IF fresh THEN [hist EXCEPT !.op = op, !.callApa = 0,
                                           !.callPfs = 0, !.apaCode = 0]
                ELSE hist
    IN  hist' = [base EXCEPT
                   !.apa = UpTo(@ + CountOf("_init_apa")),
                   !.pfs = UpTo(@ + CountOf("_init_pfs")),
                   !.callApa = UpTo(@ + CountOf("_init_apa")),
                   !.callPfs = UpTo(@ + CountOf("_init_pfs")),
                   !.apaCode = IF CountOf("_init_apa") > 0
                                 THEN drv_trace'[1].code ELSE @]

InitLife == InitProcess /\ hist = NoCounts

NextLife ==
    \/ \E p \in Paths : Open(Caller, p) /\ Counted("open", TRUE) /\ IoKept
    \/ OpenIsFile(Caller) /\ Counted("open", FALSE) /\ IoKept
    \/ OpenPath(Caller) /\ Counted("open", FALSE) /\ IoKept
    \/ OpenInitApa(Caller) /\ Counted("open", FALSE) /\ IoKept
    \/ OpenInitPfs(Caller) /\ Counted("open", FALSE) /\ IoKept
    \/ \E p \in CreatePaths, size \in CreateSizes :
          Create(Caller, p, size) /\ Counted("create", TRUE) /\ IoKept
    \/ CreateOpen(Caller) /\ Counted("create", FALSE) /\ IoKept
    \/ \E i \in 1..MaxHeld :
          DropSwap(Caller, i) /\ Counted("drop", TRUE) /\ IoKept
    \/ DropClose(Caller) /\ Counted("drop", FALSE) /\ IoKept

SpecLife == InitLife /\ [][NextLife]_vars

\* ------------------------------------------------------ the mount machine
\* The state in which open("hdd.img") has just returned a session to the
\* caller (lib.rs:667-675).
InitMount ==
    /\ IS_DEVICE_ACTIVE = TRUE
    /\ atad_device_path = WriteDevicePath([i \in 0..MaxPathLen |-> 0], 1)
    /\ dev_open = TRUE
    /\ drv_mounted = [d \in Roots |-> None]
    /\ fkind = [p \in Paths |-> InitKind(p)]
    /\ fsize = [p \in Paths |-> IF InitKind(p) = "file" THEN ImageSize ELSE 0]
    /\ sessions = [t \in Threads |-> IF t = Caller THEN <<NewSession(1)>>
                                     ELSE <<>>]
    /\ pc = [t \in Threads |-> "idle"]
    /\ call = [t \in Threads |-> NoCall]
    /\ ret = [thread |-> Caller, value |-> "Ok"]
    /\ drv_trace = <<DrvCall("_init_pfs", None, None, 0)>>
    /\ hist = [op |-> "open", path |-> 1, part |-> None, value |-> "Ok",
               after |-> "none", live |-> FALSE]
    /\ InitIo

NextMount ==
    \/ \E name \in PartNames :
          MountPfs(Caller, name) /\ Started("mount_pfs", 0, name) /\ IoKept
    \/ UmountPfs(Caller) /\ Started("umount_pfs", 0, None) /\ IoKept
    \/ \E name \in PartNames :
          MountHdlfs(Caller, name) /\ Started("mount_hdlfs", 0, name) /\ IoKept
    \/ UmountHdlfs(Caller) /\ Started("umount_hdlfs", 0, None) /\ IoKept

SpecMount == InitMount /\ [][NextMount]_vars

\* --------------------------------------------------- the partition machine
\* The names and sizes (MiB) passed to create_partition.
NewPartNames == {"TESTPART", "__common"}

PartSizes ==
    {0, 1, 64, 100, 128, 130, 200, 256, 512, 1024, 2048, 4096, 8192, 16384,
     32768, 65536}

\* What the image may hold when the session is opened: the default table
\* with one more partition, with a partition of a kind this layer does not
\* know, with an entry whose name does not decode, with an entry of mode 0.
PriorTables ==
    {Append(DefaultParts, Dirent("TESTPART", 4919, 256 * SectorsPerMiB)),
     Append(DefaultParts, Dirent("LINUX", 2, 256 * SectorsPerMiB)),
     Append(DefaultParts, Dirent(BadName, 256, 128 * SectorsPerMiB)),
     Append(DefaultParts, Dirent("__empty", 0, 3))}

\* How the caller's call ended: the value returned, or a panic.
Outcome == IF pc'[Caller] = "panicked" THEN "panicked" ELSE ret'.value

\* The call now starting directly follows a call that succeeded: which.
AfterOk == IF hist.value = "Ok" THEN hist.op ELSE "none"

\* The step is a whole partition call of the caller.
StartedPart(op, name, kind, size) ==
    hist' = [op |-> op, path |-> 0, part |-> name, value |-> Outcome,
             after |-> AfterOk, live |-> TRUE, kind |-> kind, size |-> size]

InitPart ==
    /\ IS_DEVICE_ACTIVE = TRUE
    /\ atad_device_path = WriteDevicePath([i \in 0..MaxPathLen |-> 0], 1)
    /\ dev_open = TRUE
    /\ drv_mounted = [d \in Roots |-> None]
    /\ fkind = [p \in Paths |-> InitKind(p)]
    /\ fsize = [p \in Paths |-> IF InitKind(p) = "file" THEN ImageSize ELSE 0]
    /\ sessions = [t \in Threads |-> IF t = Caller THEN <<NewSession(1)>>
                                     ELSE <<>>]
    /\ pc = [t \in Threads |-> "idle"]
    /\ call = [t \in Threads |-> NoCall]
    /\ ret = [thread |-> Caller, value |-> "Ok"]
    /\ drv_trace = <<DrvCall("_init_pfs", None, None, 0)>>
    /\ hist = [op |-> "open", path |-> 1, part |-> None, value |-> "Ok",
               after |-> "none", live |-> FALSE, kind |-> None, size |-> 0]
    /\ parts \in PriorTables
    /\ pfs_dirs = EmptyFs
    /\ host_dirs = {}
    /\ dir_handles = {}
    /\ listed = <<>>

NextPart ==
    \/ Initialize(Caller) /\ StartedPart("initialize", None, None, 0)
    \/ ListPartitions(Caller) /\ StartedPart("list_partitions", None, None, 0)
    \/ \E name \in NewPartNames, kind \in FormattableKinds, size \in PartSizes :
          /\ CreatePartition(Caller, name, kind, size)
          /\ StartedPart("create_partition", name, kind, size)
    \/ \E name \in NewPartNames, kind \in FormattableKinds :
          /\ FormatPartition(Caller, name, kind)
          /\ StartedPart("format_partition", name, kind, 0)

SpecPart == InitPart /\ [][NextPart]_vars

\* --------------------------------------------------- driver: directories
\* driver.rs:289  the path of the test, a/b/c/d, and the paths on the way.
TestPath == <<"a", "b", "c", "d">>

DirPaths == {SubSeq(TestPath, 1, n) : n \in 0..Len(TestPath)}

Front(p) == SubSeq(p, 1, Len(p) - 1)

Last(p) == p[Len(p)]

\* The result of iomanx_mkdir when nothing else goes wrong: -17 for a path
\* that exists (the root included), -2 for a missing parent.
DriverMkdirCode(fs, p) ==
    IF p \in DOMAIN fs THEN -17
    ELSE IF Front(p) \notin DOMAIN fs THEN -2
    ELSE 0

\* The file system after the driver created directory p.
WithDir(fs, p) ==
    [d \in DOMAIN fs \cup {p} |->
       IF d = p THEN DotEntries
       ELSE IF d = Front(p)
         THEN Append(fs[d], Dirent(Last(p), FIO_S_IFDIR, 0))
       ELSE fs[d]]

\* The result of iomanx_rmdir when nothing else goes wrong: -16 for the
\* root, -2 for a missing path, -39 for a directory with children.
DriverRmdirCode(fs, p) ==
    IF p = <<>> THEN -16
    ELSE IF p \notin DOMAIN fs THEN -2
    ELSE IF Len(fs[p]) > Len(DotEntries) THEN -39
    ELSE 0

NotNamed(n, e) == e.name # n

\* The file system after the driver removed directory p.
WithoutDir(fs, p) ==
    [d \in DOMAIN fs \ {p} |->
       IF d = Front(p) THEN SelectSeq(fs[d], LAMBDA e : NotNamed(Last(p), e))
       ELSE fs[d]]

\* A result the driver gives in place of the usual one at the at-th mkdir or
\* rmdir of a call: an I/O error, a missing parent, a positive number.  The
\* faults of a call map the numbers of its driver calls to such results.
DirFaultCodes == {-5, -2, 1}

DirFault(at, code) == [k \in {at} |-> code]

NoDirFault == DirFault(0, 0)

DirFaults(n) == {NoDirFault} \cup {DirFault(k, c) : k \in 1..n, c \in DirFaultCodes}

\* Every behaviour of the driver over the first n mkdir calls of a call: at
\* each of them the usual result or one of the others.
DirScripts(n) == UNION {[at -> DirFaultCodes] : at \in SUBSET (1..n)}

\* One iomanx_mkdir(path, 0o777) invocation and the code it returned.
MkdirCall(p, code) ==
    [prim |-> "iomanx_mkdir", root |-> "pfs0:", part |-> p, code |-> code,
     mode |-> 511]

\* std::path::Path::is_dir: a directory of the host, not of the image.
HostIsDir(p) == p \in host_dirs

\* A variant of Parent for C38: the path two components up.
Parent_Skip(p) ==
    [some |-> p # <<>>,
     path |-> IF Len(p) <= 1 THEN <<>> ELSE SubSeq(p, 1, Len(p) - 2)]

\* std::path::Path::parent: the path without its last component; the empty
\* path has none.
Parent(p) == [some |-> p # <<>>, path |-> IF p = <<>> THEN <<>> ELSE Front(p)]

\* What the host may hold under the working directory: nothing of the
\* paths used, or a directory tree a/b/c/d of its own.
HostTrees == {{}, DirPaths \ {<<>>}}

\* ---------------------------------------------------------- create_dir
\* driver.rs:9-21: the n-th iomanx_mkdir of the call, read by
\* ok_on_nonnegative_or_strerror.  A result of zero means the driver
\* created the directory.
CreateDirImpl(fs, p, n, fault, tr) ==
    LET code == IF n \in DOMAIN fault THEN fault[n]
                ELSE DriverMkdirCode(fs, p)
    IN  [ok |-> ~(code < 0), code |-> code,
         value |-> IF code < 0 THEN "MkdirFailed" ELSE "Ok",
         fs |-> IF code = 0 THEN WithDir(fs, p) ELSE fs,
         n |-> n + 1,
         trace |-> Append(tr, MkdirCall(p, code))]

\* driver.rs:23-41.  The error text compared at line 26 is that of code -2.
RECURSIVE CreateDirAllImpl(_, _, _, _, _)
CreateDirAllImpl(fs, p, n, fault, tr) ==
    LET first == CreateDirImpl(fs, p, n, fault, tr) IN
    IF first.ok THEN first
    ELSE IF first.code # -2
      THEN IF HostIsDir(p) THEN [first EXCEPT !.ok = TRUE, !.value = "Ok"]
           ELSE first
    ELSE IF ~Parent(p).some
      THEN [first EXCEPT !.value = "WholeTreeFailed"]
    ELSE LET up == CreateDirAllImpl(first.fs, Parent(p).path, first.n,
                                    fault, first.trace)
         IN  IF ~up.ok THEN up
             ELSE LET again == CreateDirImpl(up.fs, p, up.n, fault, up.trace)
                  IN  IF again.ok THEN again
                      ELSE IF HostIsDir(p)
                        THEN [again EXCEPT !.ok = TRUE, !.value = "Ok"]
                      ELSE again

\* The variables no directory call writes.
DirFrame ==
    UNCHANGED <<IS_DEVICE_ACTIVE, atad_device_path, dev_open, drv_mounted,
                fkind, fsize, sessions, parts, host_dirs>>

\* driver.rs:48-50  Driver::create_dir on the mounted PFS.
CreateDir(t, p) ==
    /\ pc[t] = "idle"
    /\ Len(sessions[t]) >= 1
    /\ PfsOccupied(sessions[t][1])
    /\ \E fault \in DirFaults(1) :
         LET r == CreateDirImpl(pfs_dirs, p, 1, fault, <<>>) IN
           /\ Return(t, r.value)
           /\ pfs_dirs' = r.fs
           /\ drv_trace' = r.trace
    /\ listed' = <<>>
    /\ UNCHANGED dir_handles
    /\ DirFrame

\* The most iomanx_mkdir calls one create_dir_all on path p makes.
MaxMkdirs(p) == 2 * Len(p) + 1

\* driver.rs:54-56  Driver::create_dir_all on the mounted PFS, the driver
\* behaving as one of faults.
CreateDirAllUnder(t, p, faults) ==
    /\ pc[t] = "idle"
    /\ Len(sessions[t]) >= 1
    /\ PfsOccupied(sessions[t][1])
    /\ \E fault \in faults :
         LET r == CreateDirAllImpl(pfs_dirs, p, 1, fault, <<>>) IN
           /\ Return(t, r.value)
           /\ pfs_dirs' = r.fs
           /\ drv_trace' = r.trace
    /\ listed' = <<>>
    /\ UNCHANGED dir_handles
    /\ DirFrame

CreateDirAll(t, p) == CreateDirAllUnder(t, p, DirFaults(MaxMkdirs(p)))

\* driver.rs:128-140  Driver::remove_dir: one iomanx_rmdir, read by
\* ok_on_nonnegative_or_strerror.
RemoveDir(t, p) ==
    /\ pc[t] = "idle"
    /\ Len(sessions[t]) >= 1
    /\ PfsOccupied(sessions[t][1])
    /\ \E fault \in DirFaults(1) :
         LET code == IF 1 \in DOMAIN fault THEN fault[1]
                     ELSE DriverRmdirCode(pfs_dirs, p)
         IN  /\ Return(t, IF code < 0 THEN "RmdirFailed" ELSE "Ok")
             /\ pfs_dirs' = IF code = 0 THEN WithoutDir(pfs_dirs, p)
                            ELSE pfs_dirs
             /\ drv_trace' = <<DrvCall("iomanx_rmdir", "pfs0:", p, code)>>
    /\ listed' = <<>>
    /\ UNCHANGED dir_handles
    /\ DirFrame

\* ------------------------------------------------------------- list_dir
\* A variant of Hidden for C16: only "." is left out.
Hidden_DotOnly(name) == name = "."

\* driver.rs:103  the names list_dir leaves out.
Hidden(name) == ~(name # "." /\ name # "..")

\* driver.rs:80-117: the reads of the open handle.  Read i fails, or yields
\* entry i, which is pushed unless hidden, or finds the directory drained.
RECURSIVE DrainDir(_, _, _, _, _, _)
DrainDir(entries, root, i, acc, tr, fault) ==
    IF fault.stage = "dread" /\ fault.at = i
      THEN [value |-> "DreadFailed", list |-> <<>>,
            trace |-> Append(tr, DrvCall("iomanx_dread", "pfs0:", root,
                                         fault.code))]
    ELSE IF i > Len(entries)
      THEN [value |-> "drained", list |-> acc,
            trace |-> Append(tr, DrvCall("iomanx_dread", "pfs0:", root, 0))]
    ELSE LET tr1 == Append(tr, DrvCall("iomanx_dread", "pfs0:", root,
                                       fault.pos))
         IN  IF ~NameIsUtf8(entries[i].name)
               THEN [value |-> "DecodeFailed", list |-> <<>>, trace |-> tr1]
             ELSE DrainDir(entries, root, i + 1,
                           IF Hidden(entries[i].name) THEN acc
                           ELSE Append(acc, [entry |-> entries[i],
                                             root |-> root]),
                           tr1, fault)

\* driver.rs:63-125: iomanx_dopen, the drain, iomanx_close.  The driver
\* refuses to open a path that is no directory.
ListDirImpl(fs, root, fault) ==
    LET dopen == DrvCall("iomanx_dopen", "pfs0:", root,
                         IF root \notin DOMAIN fs THEN -2
                         ELSE IF fault.stage = "dopen" THEN fault.code
                         ELSE NextHandle)
        d == DrainDir(fs[root], root, 1, <<>>, <<dopen>>, fault)
        close == DrvCall("iomanx_close", "pfs0:", root,
                         IF fault.stage = "close" THEN fault.code ELSE 0)
    IN  IF dopen.code < 0
          THEN [value |-> "DopenFailed", list |-> <<>>, trace |-> <<dopen>>,
                opened |-> FALSE, closed |-> FALSE]
        ELSE IF d.value # "drained"
          THEN [value |-> d.value, list |-> <<>>, trace |-> d.trace,
                opened |-> TRUE, closed |-> FALSE]
        ELSE IF ListCloseRefused(close.code)
          THEN [value |-> "CloseFailed", list |-> <<>>,
                trace |-> Append(d.trace, close),
                opened |-> TRUE, closed |-> TRUE]
        ELSE [value |-> "Ok", list |-> d.list,
              trace |-> Append(d.trace, close),
              opened |-> TRUE, closed |-> TRUE]

ListDir(t, p) ==
    /\ pc[t] = "idle"
    /\ Len(sessions[t]) >= 1
    /\ PfsOccupied(sessions[t][1])
    /\ Cardinality(dir_handles) < MaxHandles
    /\ \E fault \in ListFaults(IF p \in DOMAIN pfs_dirs THEN Len(pfs_dirs[p])
                               ELSE 0) :
         LET r == ListDirImpl(pfs_dirs, p, fault) IN
           /\ Return(t, r.value)
           /\ listed' = r.list
           /\ drv_trace' = r.trace
           /\ dir_handles' = HandlesAfter(r)
    /\ UNCHANGED pfs_dirs
    /\ DirFrame

\* ---------------------------------- remove_dir_all / remove_file / rename
\* driver.rs:144-166: the bodies are unimplemented!(), which panics.
Unimplemented(t) ==
    /\ pc[t] = "idle"
    /\ Len(sessions[t]) >= 1
    /\ PfsOccupied(sessions[t][1])
    /\ Panic(t)
    /\ drv_trace' = <<>>
    /\ listed' = <<>>
    /\ UNCHANGED <<pfs_dirs, dir_handles>>
    /\ DirFrame

RemoveDirAll(t, p) == Unimplemented(t)

RemoveFile(t, p) == Unimplemented(t)

Rename(t, from, to) == Unimplemented(t)

\* --------------------------------------------------- the directory machine
\* The step is a whole directory call of the caller on path p.
StartedDir(op, p) ==
    hist' = [op |-> op, path |-> 0, part |-> None, value |-> Outcome,
             after |-> AfterOk, live |-> TRUE, dir |-> p]

\* A session with TESTPART created and mounted at pfs0:, as in the tests
\* (driver.rs:216-325).
InitMounted ==
    /\ IS_DEVICE_ACTIVE = TRUE
    /\ atad_device_path = WriteDevicePath([i \in 0..MaxPathLen |-> 0], 1)
    /\ dev_open = TRUE
    /\ drv_mounted = [d \in Roots |-> IF d = "pfs0:" THEN "TESTPART"
                                      ELSE None]
    /\ fkind = [p \in Paths |-> InitKind(p)]
    /\ fsize = [p \in Paths |-> IF InitKind(p) = "file" THEN ImageSize ELSE 0]
    /\ sessions = [t \in Threads |->
                     IF t = Caller THEN <<WithPfs(NewSession(1), "TESTPART")>>
                     ELSE <<>>]
    /\ pc = [t \in Threads |-> "idle"]
    /\ call = [t \in Threads |-> NoCall]
    /\ ret = [thread |-> Caller, value |-> "Ok"]
    /\ drv_trace = <<DrvCall("iomanx_mount", "pfs0:", "TESTPART", 0)>>
    /\ hist = [op |-> "mount_pfs", path |-> 0, part |-> "TESTPART",
               value |-> "Ok", after |-> "create_partition", live |-> TRUE,
               dir |-> <<>>]
    /\ dir_handles = {}
    /\ listed = <<>>

\* The partition table of the tests: the defaults and TESTPART.
MountedTable ==
    Append(DefaultParts,
           Dirent("TESTPART", TagMode("PFS"), FieldSectors(SizeField(128, "M"))))

InitDir ==
    /\ InitMounted
    /\ parts = MountedTable
    /\ pfs_dirs = EmptyFs
    /\ host_dirs \in HostTrees

NextDir ==
    \/ \E p \in DirPaths : CreateDir(Caller, p) /\ StartedDir("create_dir", p)
    \/ \E p \in DirPaths :
          CreateDirAll(Caller, p) /\ StartedDir("create_dir_all", p)
    \/ \E p \in DirPaths : RemoveDir(Caller, p) /\ StartedDir("remove_dir", p)
    \/ \E p \in DirPaths : ListDir(Caller, p) /\ StartedDir("list_dir", p)
    \/ ListPartitions(Caller) /\ StartedDir("list_partitions", <<>>)
    \/ \E p \in DirPaths :
          RemoveDirAll(Caller, p) /\ StartedDir("remove_dir_all", p)
    \/ \E p \in DirPaths :
          RemoveFile(Caller, p) /\ StartedDir("remove_file", p)
    \/ \E p \in DirPaths :
          Rename(Caller, p, TestPath) /\ StartedDir("rename", p)

SpecDir == InitDir /\ [][NextDir]_vars

\* ------------------------------------------------------- the tree machine
\* create_dir_all and remove_dir on the paths of at most TreeDepth
\* components, under every behaviour of the driver.
TreeDepth == 2

TreePaths == {p \in DirPaths : Len(p) <= TreeDepth}

NextTree ==
    \/ \E p \in TreePaths :
          /\ CreateDirAllUnder(Caller, p, DirScripts(2 * Len(p) + 2))
          /\ StartedDir("create_dir_all", p)
    \/ \E p \in TreePaths : RemoveDir(Caller, p) /\ StartedDir("remove_dir", p)

SpecTree == InitDir /\ [][NextTree]_vars

\* ----------------------------------------------------- the listing machine
\* The names the driver may yield for the entries of a directory, and the
\* most entries it yields.
YieldedNames == {".", "..", "a", "b", BadName}

MaxEntries == 3

RECURSIVE Yields(_)
Yields(n) ==
    IF n = 0 THEN {<<>>}
    ELSE Yields(n - 1) \cup
         {Append(y, Dirent(name, FIO_S_IFDIR, 0)) :
            y \in {z \in Yields(n - 1) : Len(z) = n - 1}, name \in YieldedNames}

\* The root holds whatever sequence of entries the driver yields, the
\* partition table whatever the image held.
InitList ==
    /\ InitMounted
    /\ \/ /\ parts = MountedTable
          /\ \E y \in Yields(MaxEntries) : pfs_dirs = [d \in {<<>>} |-> y]
       \/ /\ parts \in PriorTables
          /\ pfs_dirs = EmptyFs
    /\ host_dirs = {}

NextList ==
    \/ ListDir(Caller, <<>>) /\ StartedDir("list_dir", <<>>)
    \/ ListPartitions(Caller) /\ StartedDir("list_partitions", <<>>)

SpecList == InitList /\ [][NextList]_vars

\* ------------------------------------------------- kind conversions
\* A value of enum FormattablePartitionKind (partition_kind.rs:70-80), told
\* apart from the PartitionKind of the same name.
Formattable(v) == [formattable |-> v]

FormattableValues == {Formattable(v) : v \in FormattableKinds}

\* partition_kind.rs:75-79  the discriminants, each written as that of the
\* PartitionKind of the same name.
FormattableCode(f) ==
    CASE f = Formattable("MBR") -> KindCode("MBR")
      [] f = Formattable("PFS") -> KindCode("PFS")
      [] f = Formattable("HDL") -> KindCode("HDL")

\* partition_kind.rs:114-125  TryFrom<PartitionKind> for
\* FormattablePartitionKind
FormattableTryFrom(k) ==
    CASE k = "MBR" -> [ok |-> TRUE, kind |-> Formattable("MBR")]
      [] k = "PFS" -> [ok |-> TRUE, kind |-> Formattable("PFS")]
      [] k = "HDL" -> [ok |-> TRUE, kind |-> Formattable("HDL")]
      [] OTHER -> [ok |-> FALSE, err |-> "NotFormattable"]

\* A variant of PartitionKindFrom for C22: MBR turned into PFS, as the
\* format calls do.
PartitionKindFrom_Aliased(f) ==
    CASE f = Formattable("MBR") -> "PFS"
      [] f = Formattable("PFS") -> "PFS"
      [] f = Formattable("HDL") -> "HDL"

\* partition_kind.rs:127-134  From<FormattablePartitionKind> for
\* PartitionKind
PartitionKindFrom(f) ==
    CASE f = Formattable("MBR") -> "MBR"
      [] f = Formattable("PFS") -> "PFS"
      [] f = Formattable("HDL") -> "HDL"

\* ------------------------------------------------------------ ffi_utils
\* The result codes handed to the translations: -MaxCode .. MaxCode.
MaxCode == 40

ResultCodes == (0 - MaxCode)..MaxCode

\* The message a call site supplies.
Messages == {"Failed to list directory", "Failed to close directory handle"}

\* libc::strerror(n): the text of the platform's table for n.
Strerror(n) == <<"strerror", n>>

\* ffi_utils.rs:34  CStr::to_str on the text of strerror: the table of the
\* C locale is ASCII.
StrerrorIsText(n) == TRUE

\* ffi_utils.rs:25-46  ok_on_pred_or_strerror, with f(result) already
\* evaluated.
OkOnPredOrStrerror(result, m, refused) ==
    IF refused
      THEN IF StrerrorIsText(0 - result)
             THEN [code |-> result, ok |-> FALSE, message |-> m,
                   text |-> Strerror(0 - result)]
             ELSE [code |-> 0, ok |-> FALSE,
                   message |-> "could not convert strerror message a String",
                   text |-> <<>>]
      ELSE [ok |-> TRUE, value |-> result]

\* A variant of IsNonzero for C24: the predicate of the other translation.
IsNonzero_Negative(r) == r < 0

\* ffi_utils.rs:10  |ret| ret != 0
IsNonzero(r) == r # 0

\* ffi_utils.rs:22  |ret| ret < 0
IsNegative(r) == r < 0

\* ffi_utils.rs:6-11
OkOnZeroOrStrerror(result, m) ==
    OkOnPredOrStrerror(result, m, IsNonzero(result))

\* ffi_utils.rs:18-23
OkOnNonnegativeOrStrerror(result, m) ==
    OkOnPredOrStrerror(result, m, IsNegative(result))

\* ------------------------------------------------ the conversion machine
\* The process starts with one input at hand (hist.input, of the type
\* hist.type); a caller applies a conversion to it, and hist keeps the
\* conversion and its output.
Input(type, input) ==
    [op |-> "none", type |-> type, input |-> input, output |-> None]

\* stat.mode values: zero, the six discriminants, and codes of no kind, one
\* of them (0x10001) equal to MBR in its low 16 bits.
RawModes == {0, 1, 130, 131, 256, 257, 4919, 2, 255, 258, 4096, 65537}

\* stat.size values, in sectors: from 8388608 on the size in bytes does not
\* fit 32 bits.
RawSizes ==
    {0, 1, 2047, 2048, 262144, 8388607, 8388608, 8388609, 2147483647}

Inputs ==
    {Input("PartitionKind", k) : k \in PartitionKinds}
      \cup {Input("FormattablePartitionKind", f) : f \in FormattableValues}
      \cup {Input("c_int", [code |-> r, message |-> m]) :
              r \in ResultCodes, m \in Messages}
      \cup {Input("iox_dirent_t", Dirent("TESTPART", mode, size)) :
              mode \in RawModes, size \in RawSizes}

Converted(t, op, type, output, value) ==
    /\ pc[t] = "idle"
    /\ hist.op = "none"
    /\ hist.type = type
    /\ hist' = [hist EXCEPT !.op = op, !.output = output]
    /\ Return(t, value)
    /\ drv_trace' = <<>>
    /\ UNCHANGED <<IS_DEVICE_ACTIVE, atad_device_path, dev_open, drv_mounted,
                   fkind, fsize, sessions>>
    /\ IoKept

\* kind.try_into(), and on success the result turned back with into().
KindRoundTrip(t) ==
    LET f == FormattableTryFrom(hist.input) IN
    Converted(t, "try_into", "PartitionKind",
              IF f.ok THEN [ok |-> TRUE, kind |-> f.kind,
                            back |-> PartitionKindFrom(f.kind)]
              ELSE f,
              IF f.ok THEN "Ok" ELSE f.err)

\* formattable_kind.into()
KindInto(t) ==
    Converted(t, "into", "FormattablePartitionKind",
              [kind |-> PartitionKindFrom(hist.input),
               from |-> FormattableCode(hist.input),
               to |-> KindCode(PartitionKindFrom(hist.input))],
              "Ok")

OkOnZero(t) ==
    LET o == OkOnZeroOrStrerror(hist.input.code, hist.input.message) IN
    Converted(t, "ok_on_zero", "c_int", o, IF o.ok THEN "Ok" ELSE "Err")

OkOnNonnegative(t) ==
    LET o == OkOnNonnegativeOrStrerror(hist.input.code, hist.input.message) IN
    Converted(t, "ok_on_nonnegative", "c_int", o,
              IF o.ok THEN "Ok" ELSE "Err")

\* dirent.try_into() (lib.rs:264), and list_partitions() on a table that
\* holds __mbr and the entry.
EntryTryInto(t) ==
    LET e == PartEntryTryFrom(hist.input)
        l == ListPartitionsImpl(<<DefaultParts[1], hist.input>>, NoFault)
    IN  Converted(t, "entry_try_into", "iox_dirent_t",
                  [ok |-> e.ok, err |-> e.err, entry |-> e.entry,
                   call |-> l.value, list |-> l.list],
                  IF e.ok THEN "Ok" ELSE e.err)

InitConv ==
    /\ InitProcess
    /\ hist \in Inputs

NextConv ==
    \/ KindRoundTrip(Caller)
    \/ KindInto(Caller)
    \/ OkOnZero(Caller)
    \/ OkOnNonnegative(Caller)
    \/ EntryTryInto(Caller)

SpecConv == InitConv /\ [][NextConv]_vars

\* ================================================================== claims
\* The threads in the middle of an open that holds the claim on the flag.
ClaimHolders ==
    {t \in Threads : pc[t] \in {"open_is_file", "open_path", "open_init_apa",
                                "open_init_pfs"}}

\* A driver primitive invoked by the step just taken reported failure.
DriverRefused == \E k \in 1..Len(drv_trace) : drv_trace[k].code # 0

\* The paths open accepts: existing regular files, encodable, at most 255
\* bytes.
ValidPath(p) == fkind[p] = "file" /\ ToStrIsSome(p) /\ PathLen(p) <= MaxPathLen

\* ---- C1 (Spec)
\* C1: at most one Device Session exists at any time, whatever the
\* interleaving of open, create and drop calls of the threads: the swap at
\* lib.rs:62 is the check and the claim in one step.
C1_AtMostOneSession == Cardinality(LiveSessions) <= 1

\* One thread owns the session and the call of another thread was refused.
C1_Witness ==
    \E s \in LiveSessions :
        /\ ret.value = "AlreadyActive"
        /\ ret.thread # 0
        /\ ret.thread # s[1]

\* ---- C4 (Spec)
\* C4: an open that claimed the flag and returns an error (not a regular
\* file, not encodable, too long, init_apa failed, init_pfs failed) has
\* released the flag when it returns; and whenever no session is alive and
\* no open holds the claim, the flag is clear.
C4_FailedOpenReleases ==
    /\ ret.value \in ClaimedFailures => ~IS_DEVICE_ACTIVE
    /\ (LiveSessions = {} /\ ClaimHolders = {}) => ~IS_DEVICE_ACTIVE

\* An open got as far as _init_pfs, which failed, with nothing else going on.
C4_Witness ==
    /\ ret.value = "InitPfsFailed"
    /\ LiveSessions = {}
    /\ ClaimHolders = {}
    /\ ~IS_DEVICE_ACTIVE

\* ---- C2 (SpecSeq)
\* C2: while a session is open, every open call and every create call, for
\* any path, returns AlreadyActive and leaves the flag set and the open
\* session as it was.
C2_EveryCallRefused ==
    [][(/\ LiveSessions # {}
        /\ ret'.thread = Caller
        /\ hist'.op \in {"open", "create"})
       => (/\ ret'.value = "AlreadyActive"
           /\ IS_DEVICE_ACTIVE'
           /\ sessions' = sessions)]_vars

\* ---- C3 (SpecSeq)
\* C3: drop clears the flag, and an open that directly follows the drop of a
\* session on the same path is not refused by this layer: it returns a
\* session unless _init_apa or _init_pfs reports failure.  This holds at
\* every repetition of open / drop.
C3_ReopenAfterDrop ==
    /\ hist.op = "drop" => ~IS_DEVICE_ACTIVE
    /\ (hist.op = "open" /\ hist.after = "drop" /\ hist.value # "pending")
         => \/ /\ hist.value = "Ok"
               /\ IS_DEVICE_ACTIVE
               /\ Len(sessions[Caller]) = 1
               /\ sessions[Caller][1] = NewSession(hist.path)
            \/ /\ hist.value \in {"InitApaFailed", "InitPfsFailed"}
               /\ DriverRefused

C6_PathLimit ==
    /\ [](/\ hist.op = "open"
          /\ ~hist.live
          /\ fkind[hist.path] = "file"
          /\ ToStrIsSome(hist.path)
          /\ hist.value # "pending"
          => (hist.value = "PathTooLong" <=> PathLen(hist.path) > 255))
    /\ [][(ret'.value = "PathTooLong" \/ pc'[Caller] = "open_path"
                                      \/ pc'[Caller] = "open_is_file")
          => atad_device_path' = atad_device_path]_vars
    /\ [](ret.value = "PathTooLong" => ~IS_DEVICE_ACTIVE)

\* ---- C7 (SpecSeq)
\* C7: create delegates to open only when the path did not exist, could be
\* created and could be extended; on a path that exists it fails.
C7_CreateFailsOnExisting ==
    [][(pc[Caller] = "idle" /\ hist'.op = "create")
       => IF fkind[hist'.path] = "absent"
            THEN pc'[Caller] = "create_open" \/ ret'.value = "IoError"
            ELSE ret'.value = "IoError"]_vars

\* ---- C8 (SpecMount)
\* C8: a session holds at most one PFS and one HDLFS mount: a mount call on
\* an occupied slot returns AlreadyMounted, invokes no driver primitive and
\* changes neither the session nor the driver's mounts.
C8_OccupiedSlot ==
    [][/\ (hist'.op = "mount_pfs" /\ sessions[Caller][1].pfs # None)
          => /\ ret'.value = "AlreadyMounted"
             /\ drv_trace' = <<>>
             /\ sessions' = sessions
             /\ drv_mounted' = drv_mounted
       /\ (hist'.op = "mount_hdlfs" /\ sessions[Caller][1].hdlfs # None)
          => /\ ret'.value = "AlreadyMounted"
             /\ drv_trace' = <<>>
             /\ sessions' = sessions
             /\ drv_mounted' = drv_mounted]_vars

\* A mount call on an occupied PFS slot was refused.
C8_Witness ==
    /\ hist.op = "mount_pfs"
    /\ hist.value = "AlreadyMounted"
    /\ ret.value = "AlreadyMounted"
    /\ sessions[Caller][1].pfs # None
    /\ drv_trace = <<>>

\* ---- C9 (SpecMount)
\* C9: a mount_pfs that directly follows a successful mount_pfs returns
\* AlreadyMounted; a mount_pfs that directly follows a successful umount_pfs
\* passes the slot test, invokes iomanx_mount and fills the slot again
\* unless iomanx_mount reports failure.
C9_RemountAfterUmount ==
    /\ (hist.op = "mount_pfs" /\ hist.after = "mount_pfs")
         => hist.value = "AlreadyMounted"
    /\ (hist.op = "mount_pfs" /\ hist.after = "umount_pfs")
         => /\ Len(drv_trace) = 1
            /\ drv_trace[1].prim = "iomanx_mount"
            /\ drv_trace[1].root = "pfs0:"
            /\ drv_trace[1].part = hist.part
            /\ IF drv_trace[1].code = 0
                 THEN /\ hist.value = "Ok"
                      /\ sessions[Caller][1].pfs = hist.part
                 ELSE /\ hist.value = "MountFailed"
                      /\ sessions[Caller][1].pfs = None

\* mount_pfs succeeded again right after umount_pfs.
C9_Witness ==
    /\ hist.op = "mount_pfs"
    /\ hist.after = "umount_pfs"
    /\ hist.value = "Ok"
    /\ sessions[Caller][1].pfs = hist.part

\* ---- C10 (SpecMount)
\* C10: umount_pfs and umount_hdlfs return NotMounted on an empty slot and
\* leave the session as it was; on an occupied slot they succeed and the
\* slot is empty afterwards, the other slot as it was.
C10_Umount ==
    [][/\ hist'.op = "umount_pfs"
          => IF sessions[Caller][1].pfs = None
               THEN ret'.value = "NotMounted" /\ sessions' = sessions
               ELSE /\ ret'.value = "Ok"
                    /\ sessions'[Caller][1].pfs = None
                    /\ sessions'[Caller][1].hdlfs = sessions[Caller][1].hdlfs
       /\ hist'.op = "umount_hdlfs"
          => IF sessions[Caller][1].hdlfs = None
               THEN ret'.value = "NotMounted" /\ sessions' = sessions
               ELSE /\ ret'.value = "Ok"
                    /\ sessions'[Caller][1].hdlfs = None
                    /\ sessions'[Caller][1].pfs = sessions[Caller][1].pfs]_vars

\* umount_pfs emptied the PFS slot and left the HDLFS mount in place.
C10_Witness ==
    /\ hist.op = "umount_pfs"
    /\ hist.after = "mount_hdlfs"
    /\ hist.value = "Ok"
    /\ sessions[Caller][1].pfs = None
    /\ sessions[Caller][1].hdlfs # None

\* ---- witnesses of C3, C5, C6 (SpecSeq)
\* A second round of open / drop / open on the 255-byte path succeeded.
C3_Witness ==
    /\ hist.op = "open"
    /\ hist.after = "drop"
    /\ hist.path = 2
    /\ hist.value = "Ok"
    /\ LiveSessions = {<<Caller, 1>>}

C6_Witness ==
    /\ hist.op = "open"
    /\ hist.path = 3
    /\ hist.value = "PathTooLong"
    /\ ret.value = "PathTooLong"
    /\ CStr(atad_device_path) = PathBytes(2)
    /\ ~IS_DEVICE_ACTIVE

\* ---- C11 (SpecMount)
\* C11: umount_pfs and umount_hdlfs change nothing but the slot of the
\* session: no driver primitive is invoked and the driver's mounts at pfs0:
\* and hdl0: are the same after the call as before.
C11_UmountFrame ==
    [][/\ hist'.op = "umount_pfs"
          => /\ sessions' = [sessions EXCEPT ![Caller][1].pfs = None]
             /\ drv_trace' = <<>>
             /\ drv_mounted' = drv_mounted
             /\ UNCHANGED <<IS_DEVICE_ACTIVE, atad_device_path, dev_open>>
       /\ hist'.op = "umount_hdlfs"
          => /\ sessions' = [sessions EXCEPT ![Caller][1].hdlfs = None]
             /\ drv_trace' = <<>>
             /\ drv_mounted' = drv_mounted
             /\ UNCHANGED <<IS_DEVICE_ACTIVE, atad_device_path, dev_open>>]_vars

\* umount_pfs emptied the slot and the driver still has the partition
\* mounted at pfs0:.
C11_Witness ==
    /\ hist.op = "umount_pfs"
    /\ hist.value = "Ok"
    /\ sessions[Caller][1].pfs = None
    /\ drv_mounted["pfs0:"] # None
    /\ drv_trace = <<>>

\* ---- C12 (SpecPart)
PowersOfTwo == {2^k : k \in 0..17}

\* C12: create_partition returns InvalidSize for every size that is not a
\* power of two, with no driver primitive invoked and the partition table
\* as it was, and never returns InvalidSize for a power of two.
C12_InvalidSize ==
    [][hist'.op = "create_partition"
       => IF hist'.size \in PowersOfTwo
            THEN ret'.value # "InvalidSize"
            ELSE /\ ret'.value = "InvalidSize"
                 /\ drv_trace' = <<>>
                 /\ parts' = parts]_vars

\* create_partition(_, _, 100) was refused on the default table.
C12_Witness ==
    /\ hist.op = "create_partition"
    /\ hist.size = 100
    /\ hist.value = "InvalidSize"
    /\ drv_trace = <<>>
    /\ parts = DefaultParts

\* ---- C13 (SpecPart)
ValidPartSizes == {128, 256, 512, 1024, 2048, 4096, 8192, 16384, 32768}

DefaultEntry(name, kind) ==
    [name |-> name, kind |-> kind, size |-> [mib |-> 128, rem |-> 0]]

FiveDefaults ==
    <<DefaultEntry("__mbr", "MBR"), DefaultEntry("__net", "PFS"),
      DefaultEntry("__system", "PFS"), DefaultEntry("__sysconf", "PFS"),
      DefaultEntry("__common", "PFS")>>

\* C14: after a successful initialize(), whatever the table held before, the
\* table lists as __mbr, __net, __system, __sysconf, __common with kinds
\* MBR, PFS, PFS, PFS, PFS and 128 MiB each, in that order; a
\* list_partitions() that directly follows returns exactly these five
\* unless iomanx_dopen, iomanx_dread or iomanx_close reports failure (a
\* failed read can end the call in a panic).
C14_DefaultPartitions ==
    /\ (hist.op = "initialize" /\ hist.value = "Ok")
         => /\ ListPartitionsImpl(parts, NoFault).value = "Ok"
            /\ ListPartitionsImpl(parts, NoFault).list = FiveDefaults
    /\ (hist.op = "list_partitions" /\ hist.after = "initialize")
         => \/ hist.value = "Ok" /\ listed = FiveDefaults
            \/ hist.value \in {"DopenFailed", "DreadFailed", "CloseFailed",
                              "panicked"}

\* list_partitions() returned the five defaults right after initialize().
C14_Witness ==
    /\ hist.op = "list_partitions"
    /\ hist.after = "initialize"
    /\ hist.value = "Ok"
    /\ listed = FiveDefaults

\* ---- C15 (SpecPart)
\* C15: a successful create_partition(name, PFS, size) appends one entry to
\* what list_partitions() returned before: the name, kind PFS and size MiB
\* in bytes; the entries before it are as they were.  On the default table
\* the list is the five defaults and the new entry.
C15_CreatedPartitionListed ==
    [][(/\ hist'.op = "create_partition"
        /\ hist'.kind = "PFS"
        /\ ret'.value = "Ok"
        /\ ListPartitionsImpl(parts, NoFault).value = "Ok")
       => LET created == [name |-> hist'.part, kind |-> "PFS",
                          size |-> [mib |-> hist'.size, rem |-> 0]]
          IN  /\ ListPartitionsImpl(parts', NoFault).value = "Ok"
              /\ ListPartitionsImpl(parts', NoFault).list =
                   Append(ListPartitionsImpl(parts, NoFault).list, created)
              /\ parts = DefaultParts
                   => ListPartitionsImpl(parts', NoFault).list =
                        Append(FiveDefaults, created)]_vars

\* list_partitions() returned the five defaults and TESTPART / PFS / 128 MiB
\* right after create_partition("TESTPART", PFS, 128).
C15_Witness ==
    /\ hist.op = "list_partitions"
    /\ hist.after = "create_partition"
    /\ hist.value = "Ok"
    /\ listed = Append(FiveDefaults,
                       [name |-> "TESTPART", kind |-> "PFS",
                        size |-> [mib |-> 128, rem |-> 0]])

\* ---- C16 (SpecList)
\* The entries of a sequence that are named neither "." nor "..".
NotDots(entries) ==
    SelectSeq(entries, LAMBDA e : e.name # "." /\ e.name # "..")

EntryNames(list) == [i \in 1..Len(list) |-> list[i].entry.name]

\* C16: whatever sequence of entries the driver yields for a directory, the
\* list a successful list_dir returns has no entry named "." or ".." and
\* has every other yielded entry, in the order the driver yielded them.
C16_ListDirFilter ==
    (hist.op = "list_dir" /\ hist.value = "Ok")
      => /\ \A i \in 1..Len(listed) : listed[i].entry.name \notin {".", ".."}
         /\ Len(listed) = Len(NotDots(pfs_dirs[hist.dir]))
         /\ \A i \in 1..Len(listed) :
              /\ listed[i].entry = NotDots(pfs_dirs[hist.dir])[i]
              /\ listed[i].root = hist.dir

\* The driver yielded b, .., a and list_dir returned b, a.
C16_Witness ==
    /\ hist.op = "list_dir"
    /\ hist.value = "Ok"
    /\ Len(pfs_dirs[<<>>]) = 3
    /\ pfs_dirs[<<>>][1].name = "b"
    /\ pfs_dirs[<<>>][2].name = ".."
    /\ pfs_dirs[<<>>][3].name = "a"
    /\ EntryNames(listed) = <<"b", "a">>

\* ---- C17 (SpecDir)
\* C17: after a successful create_dir_all(p) on a file system whose root
\* was empty, every prefix of p is a directory and the directory above it
\* lists exactly its last component: for a/b/c/d, / lists a, /a lists b,
\* /a/b lists c, /a/b/c lists d.
C17_TreeCreated ==
    [][(/\ hist'.op = "create_dir_all"
        /\ ret'.value = "Ok"
        /\ pfs_dirs = EmptyFs)
       => \A k \in 1..Len(hist'.dir) :
            /\ SubSeq(hist'.dir, 1, k) \in DOMAIN pfs_dirs'
            /\ EntryNames(ListDirImpl(pfs_dirs', SubSeq(hist'.dir, 1, k - 1),
                                      NoFault).list)
                 = <<hist'.dir[k]>>]_vars

\* ---- C18 (SpecDir)
\* C18: create_dir_all(p) on a path that is a directory of the mounted file
\* system returns success and leaves the tree as it was, so a second
\* create_dir_all(p) succeeds like the first.
C18_Idempotent ==
    [][(hist'.op = "create_dir_all" /\ hist'.dir \in DOMAIN pfs_dirs)
       => ret'.value = "Ok" /\ pfs_dirs' = pfs_dirs]_vars

\* ---- C19 (SpecDir)
\* C19: create_dir and remove_dir each make exactly one driver call,
\* iomanx_mkdir with mode 0777 and iomanx_rmdir, and return an error
\* whenever its result is not zero, positive results included; create_dir
\* creates no directory but the one named.
C19_SingleCall ==
    [][hist'.op \in {"create_dir", "remove_dir"}
       => /\ Len(drv_trace') = 1
          /\ drv_trace'[1].part = hist'.dir
          /\ hist'.op = "create_dir"
               => /\ drv_trace'[1].prim = "iomanx_mkdir"
                  /\ drv_trace'[1].mode = 511
                  /\ DOMAIN pfs_dirs' \subseteq DOMAIN pfs_dirs \cup {hist'.dir}
          /\ hist'.op = "remove_dir" => drv_trace'[1].prim = "iomanx_rmdir"
          /\ drv_trace'[1].code # 0 => ret'.value # "Ok"]_vars

\* ---- C20 (SpecDir)
\* C20: when list_dir or list_partitions returns, the directory handle it
\* opened is closed: the call that got a handle from iomanx_dopen ends with
\* iomanx_close and leaves no handle open.
C20_HandlesClosed ==
    hist.op \in {"list_dir", "list_partitions"}
      => /\ dir_handles = {}
         /\ (drv_trace # <<>> /\ drv_trace[1].code >= 0)
              => drv_trace[Len(drv_trace)].prim = "iomanx_close"

\* ---- C21 (SpecDir)
\* C21: no call of a public operation ends in a panic, the drop of a session
\* that does not hold the claim excepted: remove_dir_all, remove_file and
\* rename return an error, and so does list_partitions when a failed read
\* leaves a name that is not valid text.
C21_FailuresAreValues ==
    \A t \in Threads : pc[t] = "panicked" => hist.op = "drop"

IsRead(c) == c.prim = "iomanx_dread"

Reads == SelectSeq(drv_trace, IsRead)

\* What the caller's list call read from: the partition table or the root.
Yielded == IF hist.op = "list_partitions" THEN parts ELSE pfs_dirs[hist.dir]

\* C27: a list call that got a handle reads until the first result that is
\* not positive.  If that is zero (and the close succeeds) it returns the
\* entries of the positive reads before it, in order: list_partitions one
\* entry per read, list_dir those not named "." or "..".  If it is negative
\* it returns an error.
C27_ReadUntilNonPositive ==
    (/\ hist.op \in {"list_dir", "list_partitions"}
     /\ drv_trace # <<>>
     /\ drv_trace[1].code >= 0)
      => LET n == Len(Reads) IN
         /\ n >= 1
         /\ \A i \in 1..(n - 1) : Reads[i].code > 0
         /\ Reads[n].code <= 0
         /\ (Reads[n].code = 0 /\ drv_trace[Len(drv_trace)].code = 0)
              => /\ hist.value = "Ok"
                 /\ hist.op = "list_partitions"
                      => /\ Len(listed) = n - 1
                         /\ \A i \in 1..(n - 1) :
                              listed[i].name = Yielded[i].name
                 /\ hist.op = "list_dir"
                      => /\ Len(listed) = Len(NotDots(SubSeq(Yielded, 1, n - 1)))
                         /\ \A i \in 1..Len(listed) :
                              listed[i].entry =
                                NotDots(SubSeq(Yielded, 1, n - 1))[i]
         /\ Reads[n].code < 0 => hist.value = "DreadFailed"

\* ---- C28 (SpecList)
\* C28: a list call whose iomanx_close returns anything but zero, a
\* positive number included, returns an error and no entries, also when
\* every entry was read.
C28_CloseMustBeZero ==
    (/\ hist.op \in {"list_dir", "list_partitions"}
     /\ drv_trace # <<>>
     /\ drv_trace[Len(drv_trace)].prim = "iomanx_close"
     /\ drv_trace[Len(drv_trace)].code # 0)
      => /\ hist.value = "CloseFailed"
         /\ listed = <<>>

\* list_dir read three entries and the end of the directory, iomanx_close
\* returned 1, and the call failed.
C28_Witness ==
    /\ hist.op = "list_dir"
    /\ Len(Reads) = 4
    /\ Reads[4].code = 0
    /\ drv_trace[Len(drv_trace)].prim = "iomanx_close"
    /\ drv_trace[Len(drv_trace)].code = 1
    /\ hist.value = "CloseFailed"
    /\ listed = <<>>

\* ---- C30 (SpecPart)
\* C30: the driver calls of create_partition are iomanx_open, then
\* iomanx_close if and only if the open returned a handle (zero or more),
\* on that handle, then iomanx_format if and only if the close returned
\* zero; nothing else is called.
C30_CallOrder ==
    [][hist'.op = "create_partition"
       => LET tr == drv_trace' IN
          /\ Len(tr) <= 3
          /\ Len(tr) >= 1 => tr[1].prim = "iomanx_open"
          /\ Len(tr) >= 2 <=> (Len(tr) >= 1 /\ tr[1].code >= 0)
          /\ Len(tr) >= 2 => /\ tr[2].prim = "iomanx_close"
                             /\ tr[2].handle = tr[1].code
          /\ Len(tr) = 3 <=> (Len(tr) >= 2 /\ tr[2].code = 0)
          /\ Len(tr) = 3 => tr[3].prim = "iomanx_format"]_vars

\* create_partition got handle 3, closed it and formatted.
C30_Witness ==
    /\ hist.op = "create_partition"
    /\ Len(drv_trace) = 3
    /\ drv_trace[1].code = 3
    /\ drv_trace[2].handle = 3
    /\ drv_trace[2].code = 0
    /\ drv_trace[3].prim = "iomanx_format"

\* ---- C25 (SpecLife)
\* C25 as stated: over all the open, create and drop calls of the process,
\* _init_apa is invoked at most once and _init_pfs at most once.
C25_InitOncePerProcess == hist.apa <= 1 /\ hist.pfs <= 1

\* C25, amended: each open call, the one made by create included, invokes
\* _init_apa at most once and _init_pfs at most once, _init_pfs only after
\* _init_apa returned zero, and drop invokes neither; the process invokes
\* them again with every open that passes the path checks.
C25_InitOncePerOpen ==
    /\ hist.callApa <= 1
    /\ hist.callPfs <= 1
    /\ hist.callPfs = 1 => (hist.callApa = 1 /\ hist.apaCode = 0)
    /\ hist.op = "drop" => (hist.callApa = 0 /\ hist.callPfs = 0)

\* The second open of the process has invoked both primitives again.
C25_Witness ==
    /\ hist.op = "open"
    /\ hist.apa = 2
    /\ hist.pfs = 2
    /\ hist.callApa = 1
    /\ hist.callPfs = 1
    /\ ret.value = "Ok"

\* ---- C26 (Spec)
\* C26: under every interleaving of open, create and drop, the flag is set
\* whenever a session is alive, and no drop finds the flag clear.
C26_LiveImpliesClaimed ==
    /\ LiveSessions # {} => IS_DEVICE_ACTIVE
    /\ \A t \in Threads : ~(pc[t] = "panicked" /\ call[t].op = "drop")

\* One thread owns a session while another's open is refused.
C26_Witness ==
    /\ LiveSessions # {}
    /\ IS_DEVICE_ACTIVE
    /\ ret.value = "AlreadyActive"
    /\ \E t \in Threads : Len(sessions[t]) = 1 /\ ret.thread # t

\* ---- C29 (SpecSeq)
InitFailures == {"InitApaFailed", "InitPfsFailed"}

\* C29: when _init_apa or _init_pfs returns nonzero, open calls atad_close,
\* then releases the claim, then returns the failure, having invoked
\* nothing after the primitive that failed; an open that directly follows
\* is not refused as AlreadyActive.
C29_InitFailure ==
    /\ (\E i \in 1..Len(drv_trace) :
          /\ drv_trace[i].prim \in {"_init_apa", "_init_pfs"}
          /\ drv_trace[i].code # 0)
         => /\ ret.value = IF drv_trace[1].prim = "_init_apa"
                             THEN "InitApaFailed" ELSE "InitPfsFailed"
            /\ Len(drv_trace) = 3
            /\ drv_trace[2].prim = "atad_close"
            /\ drv_trace[3].prim = "IS_DEVICE_ACTIVE.swap"
            /\ ~dev_open
            /\ ~IS_DEVICE_ACTIVE
            /\ pc[Caller] = "idle"
    /\ ret.value \in InitFailures
         => /\ drv_trace # <<>>
            /\ drv_trace[1].code # 0
    /\ (hist.op = "open" /\ hist.after \in InitFailures)
         => hist.value # "AlreadyActive"

\* _init_apa failed, and the open that followed returned a session.
C29_Witness ==
    /\ hist.op = "open"
    /\ hist.after = "InitApaFailed"
    /\ hist.value = "Ok"
    /\ LiveSessions # {}

\* ---- C22 (SpecConv)
\* C22: MBR, PFS and HDL convert to a formattable kind and back to
\* themselves; EXT2Swap, EXT2 and CFS fail to convert with NotFormattable;
\* every formattable kind converts to the kind with its own numeric code.
C22_KindRoundTrip ==
    /\ (hist.op = "try_into" /\ hist.input \in {"MBR", "PFS", "HDL"})
         => /\ hist.output.ok
            /\ hist.output.kind = [formattable |-> hist.input]
            /\ hist.output.back = hist.input
    /\ (hist.op = "try_into" /\ hist.input \in {"EXT2Swap", "EXT2", "CFS"})
         => /\ ~hist.output.ok
            /\ hist.output.err = "NotFormattable"
            /\ ret.value = "NotFormattable"
    /\ hist.op = "into"
         => /\ hist.output.from = hist.output.to
            /\ hist.output.kind = hist.input.formattable

\* MBR went to the formattable MBR and back to MBR.
C22_Witness ==
    /\ hist.op = "try_into"
    /\ hist.input = "MBR"
    /\ hist.output.ok
    /\ hist.output.back = "MBR"

\* ---- C24 (SpecConv)
\* C24: the zero-means-success translation returns success carrying r
\* exactly when r = 0, the nonnegative-means-success translation exactly
\* when r >= 0; otherwise each returns a failure carrying the message and
\* the code; a success carries nothing of the message.
C24_Translations ==
    /\ hist.op = "ok_on_zero"
         => IF hist.input.code = 0
              THEN /\ hist.output.ok
                   /\ DOMAIN hist.output = {"ok", "value"}
                   /\ hist.output.value = hist.input.code
              ELSE /\ ~hist.output.ok
                   /\ hist.output.code = hist.input.code
                   /\ hist.output.message = hist.input.message
    /\ hist.op = "ok_on_nonnegative"
         => IF hist.input.code >= 0
              THEN /\ hist.output.ok
                   /\ DOMAIN hist.output = {"ok", "value"}
                   /\ hist.output.value = hist.input.code
              ELSE /\ ~hist.output.ok
                   /\ hist.output.code = hist.input.code
                   /\ hist.output.message = hist.input.message

\* The zero-means-success translation refused the positive result 10.
C24_Witness ==
    /\ hist.op = "ok_on_zero"
    /\ hist.input.code = 10
    /\ ~hist.output.ok
    /\ hist.output.code = 10

\* ---- C31 (SpecConv)
\* C31: the projection of a raw entry has no kind exactly when stat.mode is
\* zero and the kind of that code for each of the six discriminants; for
\* every other mode it fails and list_partitions fails as a whole; the size
\* is stat.size times 512, exact also where the product exceeds 32 bits.
C31_Projection ==
    hist.op = "entry_try_into" =>
      LET mode == hist.input.mode
          out == hist.output
          known == {1, 130, 131, 256, 257, 4919}
          kindOf == [m \in known |->
                       CASE m = 1 -> "MBR" [] m = 130 -> "EXT2Swap"
                         [] m = 131 -> "EXT2" [] m = 256 -> "PFS"
                         [] m = 257 -> "CFS" [] m = 4919 -> "HDL"]
      IN  /\ out.ok <=> mode \in known \cup {0}
          /\ out.ok =>
               /\ out.entry.name = hist.input.name
               /\ (out.entry.kind = None) <=> (mode = 0)
               /\ mode # 0 => out.entry.kind = kindOf[mode]
               /\ out.entry.size.rem % 512 = 0
               /\ out.entry.size.rem < 1024 * 1024
               /\ out.entry.size.mib * 2048 + out.entry.size.rem \div 512
                    = hist.input.size
               /\ out.call = "Ok"
               /\ Len(out.list) = 2
               /\ out.list[2].name = hist.input.name
               /\ (out.list[2].kind = None) <=> (mode = 0)
               /\ out.list[2].size = out.entry.size
          /\ ~out.ok =>
               /\ out.err = "InvalidKind"
               /\ out.call = "InvalidKind"
               /\ out.list = <<>>

\* An entry of mode 0 and 8388609 sectors was projected: no kind, 4096 MiB
\* and 512 bytes.
C31_Witness ==
    /\ hist.op = "entry_try_into"
    /\ hist.input.mode = 0
    /\ hist.input.size = 8388609
    /\ hist.output.ok
    /\ hist.output.entry.kind = None
    /\ hist.output.entry.size.mib = 4096
    /\ hist.output.entry.size.rem = 512

\* ---- C32 (SpecDir)
\* C32: create_dir_all(p) first calls iomanx_mkdir on p; it goes on to the
\* parent only when that call returned -2, and after the parent chain it
\* calls iomanx_mkdir on p once more and no further; when the first call
\* failed otherwise and p is no directory of the file system, the call
\* returns the error and has made no other iomanx_mkdir call.
C32_RecursionOnlyOnMissingParent ==
    [][hist'.op = "create_dir_all"
       => LET tr == drv_trace'
              p == hist'.dir
              onPath == {i \in 1..Len(tr) : tr[i].part = p}
          IN  /\ Len(tr) >= 1
              /\ tr[1].part = p
              /\ Len(tr) > 1
                   => /\ tr[1].code = -2
                      /\ p # <<>>
                      /\ tr[2].part = SubSeq(p, 1, Len(p) - 1)
                      /\ onPath \subseteq {1, Len(tr)}
              /\ (tr[1].code \notin {0, -2} /\ p \notin DOMAIN pfs_dirs)
                   => /\ Len(tr) = 1
                      /\ ret'.value = "MkdirFailed"]_vars

\* ---- C38 (SpecTree)
\* C38: whatever the driver returns, create_dir_all on a path of k
\* components returns after at most 2k+1 iomanx_mkdir calls: the calls go
\* from the path to ever shorter parents, each one component shorter than
\* the one before, and then back down one component at a time, never
\* turning upward again.
C38_Terminates ==
    hist.op = "create_dir_all" =>
      LET tr == drv_trace
          k == Len(hist.dir)
          up(i) == tr[i + 1].part = SubSeq(tr[i].part, 1, Len(tr[i].part) - 1)
          down(i) == /\ Len(tr[i + 1].part) = Len(tr[i].part) + 1
                     /\ tr[i + 1].part = SubSeq(hist.dir, 1, Len(tr[i + 1].part))
      IN  /\ Len(tr) >= 1
          /\ Len(tr) <= 2 * k + 1
          /\ tr[1].part = hist.dir
          /\ \A i \in 1..(Len(tr) - 1) :
               /\ Len(tr[i].part) > 0 \/ ~up(i)
               /\ up(i) \/ down(i)
               /\ (i > 1 /\ down(i - 1)) => down(i)
          /\ ret.value \in {"Ok", "MkdirFailed", "WholeTreeFailed"}

\* create_dir_all(a/b) made 2k+1 = 5 calls: a/b, a and the empty path on
\* the way up, a and a/b on the way down.
C38_Witness ==
    /\ hist.op = "create_dir_all"
    /\ hist.dir = <<"a", "b">>
    /\ Len(drv_trace) = 5
    /\ drv_trace[3].part = <<>>
    /\ drv_trace[5].part = <<"a", "b">>
    /\ ret.value = "Ok"

\* ---- C33 (Spec)
\* C33: while a session is live the driver's device file is open: the
\* atad_close of an earlier session's drop never runs once another open has
\* claimed the flag.
C33_LiveImpliesDeviceOpen ==
    LiveSessions # {} => dev_open

\* ---- C34 (Spec)
\* The calls of open that have claimed the flag and not yet returned.
OpensInProgress ==
    {u \in Threads :
       pc[u] \in {"open_is_file", "open_path", "open_init_apa", "open_init_pfs"}}

\* C34 as stated: an open call is refused as AlreadyActive only while a
\* session is live.
C34_RefusedOnlyWhenLive ==
    [][\A t \in Threads :
         (pc[t] = "idle" /\ ret'.thread = t /\ ret'.value = "AlreadyActive")
         => LiveSessions # {}]_vars

\* C34, amended: an open call is refused as AlreadyActive exactly when, at
\* its swap, a session is live or another open call (that of a create
\* included) has claimed the flag and not yet returned.
C34_RefusedWhenClaimed ==
    [][\A t \in Threads :
         (/\ pc[t] = "idle"
          /\ \/ pc'[t] = "open_is_file"
             \/ ret'.thread = t /\ ret'.value = "AlreadyActive")
         => ((ret'.thread = t /\ ret'.value = "AlreadyActive")
               <=> (LiveSessions # {} \/ OpensInProgress \ {t} # {}))]_vars

\* An open call was just refused as AlreadyActive with no session live:
\* another thread's open, on a path that is no file, holds the claim.
C34_Witness ==
    /\ ret.value = "AlreadyActive"
    /\ LiveSessions = {}
    /\ \E u \in OpensInProgress :
         /\ u # ret.thread
         /\ call[u].op = "open"
         /\ fkind[call[u].path] # "file"

\* ---- C35 (SpecSeq)
\* C35: a create call that ends with AlreadyActive changes no file.  With
\* the flag set when the caller's create starts, the open that create ends
\* with is refused; the step before it, File::create and set_len, is to
\* leave every file's kind and length as it was, those of the open
\* session's image in particular.
C35_RefusedCreateKeepsFiles ==
    [][(/\ pc[Caller] = "idle"
        /\ hist'.op = "create"
        /\ pc'[Caller] = "create_open"
        /\ IS_DEVICE_ACTIVE)
       => (fkind' = fkind /\ fsize' = fsize)]_vars

\* ---- C36 (SpecPart)
\* C36: when create_partition got a handle from iomanx_open, iomanx_close
\* returned zero and iomanx_format returned nonzero, the call returns the
\* format error and the partition stays in the table: list_partitions
\* returns what it returned before and the new entry after it.
C36_NoRollback ==
    [][(/\ hist'.op = "create_partition"
        /\ Len(drv_trace') = 3
        /\ drv_trace'[3].code # 0)
       => /\ ret'.value = "FormatFailed"
          /\ Len(parts') = Len(parts) + 1
          /\ parts'[Len(parts')].name = hist'.part
          /\ ListPartitionsImpl(parts, NoFault).value = "Ok"
               => LET now == ListPartitionsImpl(parts', NoFault) IN
                  /\ now.value = "Ok"
                  /\ Len(now.list) = Len(parts')
                  /\ now.list[Len(now.list)].name = hist'.part
                  /\ SubSeq(now.list, 1, Len(parts))
                       = ListPartitionsImpl(parts, NoFault).list]_vars

\* create_partition("TESTPART", PFS, 128) failed in its format step with
\* result 1 and TESTPART is in the table.
C36_Witness ==
    /\ hist.op = "create_partition"
    /\ hist.part = "TESTPART"
    /\ hist.value = "FormatFailed"
    /\ Len(drv_trace) = 3
    /\ drv_trace[3].code = 1
    /\ parts[Len(parts)].name = "TESTPART"
    /\ ListPartitionsImpl(parts, NoFault).value = "Ok"

\* ---- C39 (SpecMount)
\* C39: a mount_pfs (mount_hdlfs) whose iomanx_mount call returns nonzero
\* returns the mount error and leaves the session as it was, its PFS (HDLFS)
\* slot empty; and while that slot is empty, as after the failed mount, a
\* mount_pfs (mount_hdlfs) is not refused with AlreadyMounted and an
\* umount_pfs (umount_hdlfs) returns NotMounted.
C39_FailedMountKeepsSlotEmpty ==
    [][/\ (/\ hist'.op \in {"mount_pfs", "mount_hdlfs"}
           /\ Len(drv_trace') = 1
           /\ drv_trace'[1].code # 0)
          => /\ ret'.value = "MountFailed"
             /\ sessions' = sessions
             /\ hist'.op = "mount_pfs" => sessions'[Caller][1].pfs = None
             /\ hist'.op = "mount_hdlfs" => sessions'[Caller][1].hdlfs = None
       /\ (sessions[Caller][1].pfs = None /\ hist'.op = "mount_pfs")
          => /\ ret'.value # "AlreadyMounted"
             /\ Len(drv_trace') = 1
       /\ (sessions[Caller][1].pfs = None /\ hist'.op = "umount_pfs")
          => ret'.value = "NotMounted"
       /\ (sessions[Caller][1].hdlfs = None /\ hist'.op = "mount_hdlfs")
          => /\ ret'.value # "AlreadyMounted"
             /\ Len(drv_trace') = 1
       /\ (sessions[Caller][1].hdlfs = None /\ hist'.op = "umount_hdlfs")
          => ret'.value = "NotMounted"]_vars

\* mount_pfs("TESTPART") has failed on a positive result of iomanx_mount
\* and the PFS slot is empty, while an HDLFS partition is mounted.
C39_Witness ==
    /\ hist.op = "mount_pfs"
    /\ hist.part = "TESTPART"
    /\ hist.value = "MountFailed"
    /\ Len(drv_trace) = 1
    /\ drv_trace[1].code > 0
    /\ sessions[Caller][1].pfs = None
    /\ sessions[Caller][1].hdlfs # None

\* ---- C37 (Spec)
\* The device-path buffer read as a C string is the path of every live
\* session.
PathHeld ==
    \A s \in LiveSessions :
        CStr(atad_device_path) = PathBytes(sessions[s[1]][s[2]].path)

\* The open errors C37 names.
UnwrittenFailures == {"AlreadyActive", "PathNotFound", "PathTooLong"}

\* C37: whenever a session is live, atad_device_path holds that session's
\* path followed by a NUL, whatever an earlier open stored; and a call of
\* open that returns AlreadyActive, PathNotFound or PathTooLong writes
\* nothing to atad_device_path: the only step that changes it is the path
\* step of an open that goes on to _init_apa, and the three errors are
\* returned at or before that step.
C37_BufferHoldsSessionPath ==
    [][/\ PathHeld
       /\ PathHeld'
       /\ ret'.value \in UnwrittenFailures
            => /\ atad_device_path' = atad_device_path
               /\ pc[ret'.thread] \in {"idle", "create_open", "open_is_file",
                                       "open_path"}
       /\ atad_device_path' # atad_device_path
            => \E t \in Threads :
                  /\ pc[t] = "open_path"
                  /\ pc'[t] = "open_init_apa"
                  /\ CStr(atad_device_path') = PathBytes(call[t].path)]_vars

\* A session on hdd.img (7 bytes) is live after an earlier session on the
\* 255-byte path: the buffer holds the 7 bytes, a NUL, and bytes of the
\* longer path after it.
C37_Witness ==
    /\ \E s \in LiveSessions : sessions[s[1]][s[2]].path = 1
    /\ CStr(atad_device_path) = PathBytes(1)
    /\ atad_device_path[PathLen(1)] = 0
    /\ atad_device_path[PathLen(1) + 1] = PathByte(2)

=============================================================================
